---- MODULE Spec2Model ----
(***************************************************************************)
(* The cloud client of CodexMonitor (src/components/CloudClientApp.tsx with *)
(* cloud/cloudTypes.ts and cloud/cloudCache.ts): the polling scheduler,    *)
(* the command lifecycle tracker, the optimistic overlay and the durable   *)
(* cache, as a state machine.  A handler that awaits the transport is one  *)
(* action per stretch of code between two awaits; what it captured in its  *)
(* closure travels in the record of the request in flight.                 *)
(***************************************************************************)
EXTENDS Integers, Sequences, FiniteSets, TLC

VARIABLES
  now,                              \* Date.now()
  runnerId, runnerOnline,           \* useState, lines 94-96
  global,                           \* useState, line 97
  workspaceSnaps,                   \* useState, line 98
  threadSnap,                       \* useState, line 101
  activeWorkspaceId, activeThreadId,\* useState, lines 102-103
  threadLoadMode,                   \* useState, line 138
  pendingByThreadKey,               \* useState, line 117
  awaitingByThreadKey,              \* useState, line 125
  awaitingOrder,                    \* key order of awaitingByThreadKey (Object.keys)
  localItemsByThreadKey,            \* useState, line 133
  lastThreadUpdatedAtByKey,         \* useRef, line 136
  lastWorkspaceUpdatedAt,           \* useRef, line 143
  lastWorkspaceFetchAt,             \* useRef, line 144
  lastThreadFetchAt,                \* useRef, line 145
  lastBackgroundThreadFetchAtByKey, \* useRef, line 146
  lastSendRef,                      \* useRef, line 147
  cache,                            \* localStorage blob of cloudCache.ts
  ticks,                            \* scheduler ticks suspended at an await
  selFetches,                       \* select-triggered fetches in flight, each started
                                    \* together with a submitCommand (lines 779, 865)
  submits,                          \* cloudkitSubmitCommand calls of handleSend in flight
  polls,                            \* cloudkitGetCommandResult calls in flight
  outbox,                           \* sendUserMessage commands handed to the transport
  results,                          \* the transport's command results, by command id
  nextCommandId,                    \* the next crypto.randomUUID()
  telemetryEvents,                  \* the send.blocked and reply.timeout events handed
                                    \* to pushCloudTelemetry (lines 916, 1153)
  telemetry,                        \* localStorage blob of cloudTelemetry.ts, as the
                                    \* calls of SpecTelemetry leave it
  unhandledRejections,              \* the promises that were rejected with no handler
  cloudKitPollIntervalMs            \* appSettings.cloudKitPollIntervalMs

vars == <<now, runnerId, runnerOnline, global, workspaceSnaps, threadSnap,
          activeWorkspaceId, activeThreadId, threadLoadMode, pendingByThreadKey,
          awaitingByThreadKey, awaitingOrder, localItemsByThreadKey,
          lastThreadUpdatedAtByKey, lastWorkspaceUpdatedAt, lastWorkspaceFetchAt,
          lastThreadFetchAt, lastBackgroundThreadFetchAtByKey, lastSendRef, cache,
          ticks, selFetches, submits, polls, outbox, results, nextCommandId,
          telemetryEvents, telemetry, unhandledRejections, cloudKitPollIntervalMs>>

-----------------------------------------------------------------------------
(* Bounds of the model *)

MaxTs == 2            \* writer timestamps are 1..MaxTs
MaxTicks == 1         \* scheduler ticks in flight at once
MaxSelFetches == 1    \* select-triggered fetches in flight at once
MaxCommands == 2      \* commands sent in one run
MaxPolls == 1         \* result polls of one thread key in flight at once
MaxInstants == 1      \* clock readings after each base instant

(* Program constants *)

DefaultPollIntervalMs == 5000
RunnerOnlineWindowMs == 20000
WorkspaceRefreshFloorMs == 6000
ThreadIdleRefreshFloorMs == 8000
SendDebounceMs == 1500
ReplyTimeoutMs == 900000
TailWindow == 12
MAX_THREAD_ENTRIES == 8
MAX_THREAD_ITEMS == 80
MAX_TEXT_CHARS == 2000
MAX_CACHE_AGE_MS == 1209600000   \* 1000 * 60 * 60 * 24 * 14
Epoch == 11 * ReplyTimeoutMs   \* the clock reading at start; refs hold 0 for "never"

-----------------------------------------------------------------------------
(* Data *)

NoId == ""
Workspaces == {"w1", "w2", "w3"}
ThreadIds == {"tA", "tB", "tC"}

\* threadKey, lines 154-156: `${workspaceId}::${threadId}`; a pair keeps both parts
\* apart, as key.split("::") recovers them (lines 566, 1045).
threadKey(workspaceId, threadId) == <<workspaceId, threadId>>
ThreadKeys == {threadKey("w1", t) : t \in ThreadIds}
\* the threads that the sidebar lists for a workspace snapshot of tA and tB
SidebarKeys == {threadKey("w1", t) : t \in {"tA", "tB"}}

Max(a, b) == IF a >= b THEN a ELSE b
Min(a, b) == IF a <= b THEN a ELSE b

RECURSIVE SelectSeqBy(_, _)
SeqToSet(s) == {s[i] : i \in 1..Len(s)}
Contains(s, x) == \E i \in 1..Len(s) : s[i] = x
SelectSeqBy(s, keep) ==
  IF s = <<>> THEN <<>>
  ELSE IF Head(s) \in keep THEN <<Head(s)>> \o SelectSeqBy(Tail(s), keep)
       ELSE SelectSeqBy(Tail(s), keep)
Without(s, x) == SelectSeqBy(s, SeqToSet(s) \ {x})
LastN(s, n) == SubSeq(s, Max(1, Len(s) - n + 1), Len(s))

\* Texts are strings; the trimmed form of those the user types is tabulated.
TextLen(t) == Len(t)
Trim(t) == CASE t = " " -> "" [] t = " hi" -> "hi" [] OTHER -> t

Message(id, role, text) == [kind |-> "message", id |-> id, role |-> role, text |-> text]
ToolItem(id) == [kind |-> "tool", id |-> id, role |-> "", text |-> ""]

\* Envelopes (cloudTypes.ts): ts = 0 stands for null.
NoGlobal == [v |-> 1, ts |-> 0, workspaces |-> <<>>]
NoWorkspaceSnap == [v |-> 1, ts |-> 0, workspaceId |-> NoId, threads |-> {}]
NoThreadSnap ==
  [v |-> 1, ts |-> 0, workspaceId |-> NoId, threadId |-> NoId, items |-> <<>>, thread |-> <<>>]
GlobalSnapshot(ts, wsIds) == [v |-> 1, ts |-> ts, workspaces |-> wsIds]
WorkspaceSnapshot(ts, w, ths) == [v |-> 1, ts |-> ts, workspaceId |-> w, threads |-> ths]
ThreadSnapshot(ts, key, items, thread) ==
  [v |-> 1, ts |-> ts, workspaceId |-> key[1], threadId |-> key[2],
   items |-> items, thread |-> thread]

\* What cloudkitGetSnapshot can answer besides an envelope: no record, or a call
\* that throws.
NoRecord == [v |-> 0, ts |-> 0]
Throws == [v |-> -1, ts |-> 0]

\* parseCloudSnapshot, cloudTypes.ts: null unless v = 1.
parseCloudSnapshot(record) == IF record.v # 1 THEN NoRecord ELSE record
Parsed(record) == parseCloudSnapshot(record).v = 1

NoPending == [id |-> 0, createdAt |-> 0, phase |-> "none", resultPayloadJson |-> "", error |-> ""]
NoAwaiting == [commandId |-> 0, workspaceId |-> NoId, threadId |-> NoId,
               startedAtMs |-> 0, baselineAssistantCount |-> 0]
NoResult == [ok |-> FALSE, payloadJson |-> "<none>"]
NoSend == [workspaceId |-> NoId, threadId |-> NoId, text |-> "", atMs |-> 0]

\* window.localStorage as cloudCache.ts sees it: the blob under STORAGE_KEY
\* (v = 0: no blob; threads is the object of the blob, a function on the keys
\* it holds) and how the backend answers (backend: "ok", "readThrows" when
\* getItem throws, "writeThrows" when setItem throws).  The value
\* loadCloudCache returns has the same shape, v = 0 standing for null.
EmptyCache == [v |-> 0, updatedAtMs |-> 0, backend |-> "ok",
               runner |-> NoId, global |-> NoGlobal,
               workspaces |-> [w \in Workspaces |-> NoWorkspaceSnap],
               threads |-> <<>>,
               threadOrder |-> <<>>]

-----------------------------------------------------------------------------
(* cloudTelemetry.ts *)

\* MAX_ENTRIES, line 14
MAX_ENTRIES == 250

\* The localStorage blob under STORAGE_KEY (line 13): the entries it holds and
\* how the backend answers, as for the cache.  An entry is a record with ts,
\* event and note; ts = 0 stands for an entry pushed without ts, and an entry
\* with event = NoId for one that is no telemetry entry (lines 30-33).
EmptyTelemetry == [backend |-> "ok", entries |-> <<>>]

\* readCloudTelemetry, lines 24-36: the well-formed entries of the blob, none
\* when getItem throws
readCloudTelemetry(t) ==
  IF t.backend = "readThrows" THEN <<>>
  ELSE SelectSeq(t.entries, LAMBDA e : e.event # NoId)

\* clearCloudTelemetry, lines 38-44: removeItem, which a storage that cannot be
\* read refuses as well
clearCloudTelemetry(t) ==
  IF t.backend = "readThrows" THEN t ELSE [t EXCEPT !.entries = <<>>]

\* slice(-MAX_ENTRIES), line 52
lastEntries(merged) ==
  IF Len(merged) <= MAX_ENTRIES THEN merged
  ELSE SubSeq(merged, Len(merged) - MAX_ENTRIES + 1, Len(merged))

\* the cap taken from the front: slice(0, MAX_ENTRIES)
pushCloudTelemetry_KeepOldest(t, entry) ==
  LET next == [entry EXCEPT !.ts = IF entry.ts = 0 THEN now ELSE entry.ts]
      merged == Append(readCloudTelemetry(t), next)
  IN  IF t.backend = "writeThrows" THEN t
      ELSE [t EXCEPT !.entries = SubSeq(merged, 1, Min(Len(merged), MAX_ENTRIES))]

\* pushCloudTelemetry, lines 46-58
pushCloudTelemetry(t, entry) ==
  LET next == [entry EXCEPT !.ts = IF entry.ts = 0 THEN now ELSE entry.ts]
      merged == Append(readCloudTelemetry(t), next)
  IN  IF t.backend = "writeThrows" THEN t
      ELSE [t EXCEPT !.entries = lastEntries(merged)]

-----------------------------------------------------------------------------
(* cloudCache.ts *)

\* nowMs, lines 93-95
nowMs == now

\* the character U+2026
Ellipsis == "~"

\* the text cut without the ellipsis
truncate_NoEllipsis(value, maxChars) ==
  IF TextLen(value) <= maxChars THEN value ELSE SubSeq(value, 1, maxChars)

\* truncate, lines 109-113
truncate(value, maxChars) ==
  IF value = "" THEN ""
  ELSE IF TextLen(value) <= maxChars THEN value
  ELSE SubSeq(value, 1, maxChars) \o Ellipsis

\* compactThreadSnapshot
compactThreadSnapshot(snapshot) ==
  IF snapshot.items = <<>> THEN snapshot
  ELSE LET kept == LastN(snapshot.items, MAX_THREAD_ITEMS)
           trimmedItems ==
             [i \in 1..Len(kept) |->
                IF kept[i].kind # "message" THEN kept[i]
                ELSE [kept[i] EXCEPT !.text = truncate(kept[i].text, MAX_TEXT_CHARS)]]
       IN  [snapshot EXCEPT !.items = trimmedItems, !.thread = <<>>]

\* coerceCache without the age check of lines 150-153
coerceCache_NoAge(value) ==
  IF value.v # 1 THEN [EmptyCache EXCEPT !.backend = value.backend]
  ELSE [value EXCEPT !.updatedAtMs = IF @ = 0 THEN nowMs ELSE @]

\* coerceCache, lines 146-166: null for a value that is no cache of version 1 or
\* whose updatedAtMs is more than MAX_CACHE_AGE_MS before now
coerceCache(value) ==
  IF value.v # 1 THEN [EmptyCache EXCEPT !.backend = value.backend]
  ELSE IF value.updatedAtMs # 0 /\ nowMs - value.updatedAtMs > MAX_CACHE_AGE_MS
       THEN [EmptyCache EXCEPT !.backend = value.backend]
  ELSE [value EXCEPT !.updatedAtMs = IF @ = 0 THEN nowMs ELSE @]

\* loadCloudCache, lines 168-176: null when there is no blob and when getItem
\* throws
loadCloudCache(c) ==
  IF c.backend = "readThrows" THEN [EmptyCache EXCEPT !.backend = c.backend]
  ELSE coerceCache(c)

\* saveCloudCache, lines 178-184: the storage after setItem(next), which is the
\* storage as it was when setItem throws
saveCloudCache(c, next) ==
  IF c.backend = "writeThrows" THEN c ELSE next

\* `loadCloudCache() ?? {v: 1, updatedAtMs: nowMs(), runner: null, ...}`, lines
\* 187-195, 202-210, 217-225, 232-240
loadOrNew(c) ==
  LET loaded == loadCloudCache(c)
  IN  IF loaded.v = 1 THEN loaded ELSE [loaded EXCEPT !.v = 1, !.updatedAtMs = nowMs]

writeCloudCacheRunner(c, runner) ==
  saveCloudCache(c, [loadOrNew(c) EXCEPT !.runner = runner, !.updatedAtMs = nowMs])

writeCloudCacheGlobal(c, next) ==
  saveCloudCache(c, [loadOrNew(c) EXCEPT !.global = next, !.updatedAtMs = nowMs])

writeCloudCacheWorkspace(c, next) ==
  saveCloudCache(c, [loadOrNew(c) EXCEPT !.workspaces[next.workspaceId] = next,
                                         !.updatedAtMs = nowMs])

\* writeCloudCacheThread with a key that is in the order list left at its
\* place (line 243 without the move to the front)
writeCloudCacheThread_KeepPlace(c, next) ==
  LET loaded == loadOrNew(c)
      key == threadKey(next.workspaceId, next.threadId)
      order == IF Contains(loaded.threadOrder, key) THEN loaded.threadOrder
               ELSE <<key>> \o loaded.threadOrder
      removed == IF Len(order) > MAX_THREAD_ENTRIES
                 THEN SeqToSet(SubSeq(order, MAX_THREAD_ENTRIES + 1, Len(order)))
                 ELSE {}
      keys == ((DOMAIN loaded.threads) \cup {key}) \ removed
  IN  saveCloudCache(c,
        [loaded EXCEPT
           !.threads = [k \in keys |-> IF k = key THEN compactThreadSnapshot(next)
                                       ELSE loaded.threads[k]],
           !.threadOrder = SubSeq(order, 1, Min(Len(order), MAX_THREAD_ENTRIES)),
           !.updatedAtMs = nowMs])

writeCloudCacheThread(c, next) ==
  LET loaded == loadOrNew(c)
      key == threadKey(next.workspaceId, next.threadId)
      order == <<key>> \o Without(loaded.threadOrder, key)
      removed == IF Len(order) > MAX_THREAD_ENTRIES
                 THEN SeqToSet(SubSeq(order, MAX_THREAD_ENTRIES + 1, Len(order)))
                 ELSE {}
      keys == ((DOMAIN loaded.threads) \cup {key}) \ removed
  IN  saveCloudCache(c,
        [loaded EXCEPT
           !.threads = [k \in keys |-> IF k = key THEN compactThreadSnapshot(next)
                                       ELSE loaded.threads[k]],
           !.threadOrder = SubSeq(order, 1, Min(Len(order), MAX_THREAD_ENTRIES)),
           !.updatedAtMs = nowMs])

\* no thread is ever found in the cache
getCachedThreadSnapshot_None(c, workspaceId, threadId) == NoThreadSnap

\* getCachedThreadSnapshot, of a value loadCloudCache returned
getCachedThreadSnapshot(c, workspaceId, threadId) ==
  IF c.v = 1 /\ threadKey(workspaceId, threadId) \in DOMAIN c.threads
  THEN c.threads[threadKey(workspaceId, threadId)]
  ELSE NoThreadSnap

-----------------------------------------------------------------------------
(* threads/threadItems.ts *)

\* buildConversationItemFromThreadItem: one raw item [type, id, text] of a turn.
buildConversationItemFromThreadItem(item) ==
  IF item.id = NoId \/ item.type = "" THEN <<>>
  ELSE IF item.type = "userMessage"
       THEN <<Message(item.id, "user", IF item.text = "" THEN "[message]" ELSE item.text)>>
  ELSE IF item.type = "agentMessage" THEN <<Message(item.id, "assistant", item.text)>>
  ELSE IF item.type = "webSearch" THEN <<ToolItem(item.id)>>
  ELSE <<>>

\* null as an entry of a turns or items array
JsNull == [type |-> "<null>", id |-> "<null>", text |-> "<null>"]

\* lines 154-155: `item.type` of an entry that is null is a TypeError (as is
\* `turnRecord.items` of a turn that is null, line 196)
threadItemThrows(item) == item = JsNull

\* whether buildItemsFromThread(thread) throws: forEach passes the exception of
\* its callback on (lines 193-203)
buildItemsFromThreadThrows(thread) ==
  \E i \in 1..Len(thread) : threadItemThrows(thread[i])

\* what it returns when it does not throw
RECURSIVE buildItemsFromThread(_)
buildItemsFromThread(thread) ==
  IF thread = <<>> THEN <<>>
  ELSE buildConversationItemFromThreadItem(Head(thread)) \o buildItemsFromThread(Tail(thread))

-----------------------------------------------------------------------------
(* CloudClientApp.tsx: derived values *)

isMessage(item) == item.kind = "message"
Signature(item) == <<item.kind, item.role, item.text>>

countAssistantMessages(items) ==
  Cardinality({i \in 1..Len(items) : items[i].kind = "message" /\ items[i].role = "assistant"})

activeThreadKey ==
  IF activeWorkspaceId = NoId \/ activeThreadId = NoId THEN <<>>
  ELSE threadKey(activeWorkspaceId, activeThreadId)

\* a setting: a finite number, or none (null, NaN, an infinity)
Configured(value) == [finite |-> TRUE, value |-> value]
NotConfigured == [finite |-> FALSE, value |-> 0]

\* the clamp without its lower end: Math.min(configured, 30000)
pollIntervalMsOf_NoFloor(configured) ==
  IF configured.finite THEN Min(configured.value, 30000) ELSE DefaultPollIntervalMs

\* lines 239-245
pollIntervalMsOf(configured) ==
  IF configured.finite THEN Min(Max(configured.value, 1000), 30000)
  ELSE DefaultPollIntervalMs

pollIntervalMs == pollIntervalMsOf(cloudKitPollIntervalMs)

\* the item list of a snapshot as activeItems takes it, lines 692-702
baseItemsOf(snap) ==
  IF snap.items # <<>> THEN snap.items ELSE buildItemsFromThread(snap.thread)

\* lines 712-728: the overlay appended to the base, less what the tail already shows
RECURSIVE mergeLocalItems(_, _, _)
mergeLocalItems(merged, tailSigs, localItems) ==
  IF localItems = <<>> THEN merged
  ELSE LET item == Head(localItems)
       IN  IF isMessage(item) /\ Signature(item) \in tailSigs
           THEN mergeLocalItems(merged, tailSigs, Tail(localItems))
           ELSE mergeLocalItems(Append(merged, item),
                                IF isMessage(item) THEN tailSigs \cup {Signature(item)}
                                ELSE tailSigs,
                                Tail(localItems))

\* the tail left unread: the overlay is appended whatever the base shows
tailSignatures_Empty(baseItems) == {}

tailSignatures(baseItems) ==
  LET tail == LastN(baseItems, TailWindow)
  IN  {Signature(tail[i]) : i \in {j \in 1..Len(tail) : isMessage(tail[j])}}

\* activeItems, lines 688-729, of any state given by its parts
activeItemsOf(snap, threadId, key, localByKey) ==
  IF snap.ts = 0 \/ snap.threadId # threadId THEN <<>>
  ELSE LET baseItems == baseItemsOf(snap)
       IN  IF key = <<>> THEN baseItems
           ELSE IF key \notin ThreadKeys \/ localByKey[key] = <<>> THEN baseItems
           ELSE mergeLocalItems(baseItems, tailSignatures(baseItems), localByKey[key])

activeItems == activeItemsOf(threadSnap, activeThreadId, activeThreadKey, localItemsByThreadKey)

activePending ==
  IF activeThreadKey \in ThreadKeys THEN pendingByThreadKey[activeThreadKey] ELSE NoPending
activeAwaiting ==
  IF activeThreadKey \in ThreadKeys THEN awaitingByThreadKey[activeThreadKey] ELSE NoAwaiting

isLive(pending) == pending.id # 0 /\ pending.phase # "error"

\* line 247
shouldFastPollActiveThread == activeAwaiting.commandId # 0 \/ isLive(activePending)

\* line 764 (cloudEnabled is the constant true of line 80)
canSend ==
  runnerId # NoId /\ runnerOnline /\ activeWorkspaceId # NoId /\ activeThreadId # NoId

\* the signatures left uncompared: every message of the overlay is dropped
reconcileLocalItems_DropAll(localByKey, key, snapshotItems) ==
  [localByKey EXCEPT ![key] = SelectSeqBy(@, {it \in SeqToSet(@) : ~isMessage(it)})]

\* reconcileLocalItems, lines 177-205: the overlay map after reconciling key
reconcileLocalItems(localByKey, key, snapshotItems) ==
  LET local == localByKey[key]
      snapshotSigs ==
        {Signature(snapshotItems[i]) : i \in {j \in 1..Len(snapshotItems) : isMessage(snapshotItems[j])}}
      keep == {it \in SeqToSet(local) : ~isMessage(it) \/ Signature(it) \notin snapshotSigs}
  IN  IF local = <<>> THEN localByKey
      ELSE [localByKey EXCEPT ![key] = SelectSeqBy(local, keep)]

\* the baseline left uncompared: no snapshot resolves
awaitingResolved_Never(awaitingByKey, key, items) == FALSE

\* applyAwaitingResolutionFromItems, lines 207-236: whether the items resolve key
awaitingResolved(awaitingByKey, key, items) ==
  /\ awaitingByKey[key].commandId # 0
  /\ countAssistantMessages(items) > awaitingByKey[key].baselineAssistantCount

-----------------------------------------------------------------------------
(* Start: the state after mount.  The restore effect (lines 250-271) has put   *)
(* the stored selection into state and the hydration effect (lines 293-346)    *)
(* has copied runner, global and workspace snapshots out of the cache; its     *)
(* thread branch (331-345) never runs, the selection being null on the first   *)
(* render.  inFlight are the ticks started at mount that are still suspended.  *)

MountedWithSetting(cached, storedKey, online, inFlight, setting) ==
  /\ runnerId = loadCloudCache(cached).runner
  /\ runnerOnline = (loadCloudCache(cached).runner # NoId /\ online)
  /\ global = loadCloudCache(cached).global
  /\ workspaceSnaps = loadCloudCache(cached).workspaces
  /\ lastWorkspaceUpdatedAt = [w \in Workspaces |-> loadCloudCache(cached).workspaces[w].ts]
  /\ threadSnap = NoThreadSnap
  /\ activeWorkspaceId = (IF storedKey = <<>> THEN NoId ELSE storedKey[1])
  /\ activeThreadId = (IF storedKey = <<>> THEN NoId ELSE storedKey[2])
  /\ threadLoadMode = "idle"
  /\ pendingByThreadKey = [k \in ThreadKeys |-> NoPending]
  /\ awaitingByThreadKey = [k \in ThreadKeys |-> NoAwaiting]
  /\ awaitingOrder = <<>>
  /\ localItemsByThreadKey = [k \in ThreadKeys |-> <<>>]
  /\ lastThreadUpdatedAtByKey = [k \in ThreadKeys |-> 0]
  /\ lastWorkspaceFetchAt = [w \in Workspaces |-> 0]
  /\ lastThreadFetchAt = 0
  /\ lastBackgroundThreadFetchAtByKey = [k \in ThreadKeys |-> 0]
  /\ lastSendRef = NoSend
  /\ cache = cached
  /\ ticks = inFlight
  /\ selFetches = {}
  /\ submits = {}
  /\ polls = {}
  /\ outbox = {}
  /\ results = [c \in 1..MaxCommands |-> NoResult]
  /\ nextCommandId = 1
  /\ telemetryEvents = {}
  /\ telemetry = EmptyTelemetry
  /\ unhandledRejections = {}
  /\ cloudKitPollIntervalMs = setting

\* with no poll interval in the app settings
MountedWith(cached, storedKey, online, inFlight) ==
  MountedWithSetting(cached, storedKey, online, inFlight, NotConfigured)

\* the same once the ticks started at mount have ended
Mounted(cached, storedKey, online) == MountedWith(cached, storedKey, online, {})

\* the first mount of a run, at the clock reading Epoch
InitFrom(cached, storedKey, online) ==
  /\ now = Epoch
  /\ Mounted(cached, storedKey, online)

-----------------------------------------------------------------------------
(* Effects that follow a render.  They run before any other event is handled. *)

threads ==
  IF activeWorkspaceId = NoId THEN {} ELSE workspaceSnaps[activeWorkspaceId].threads

\* lines 650-665
EffWorkspaceGone ==
  /\ activeWorkspaceId # NoId
  /\ global.workspaces # <<>>
  /\ ~Contains(global.workspaces, activeWorkspaceId)

\* lines 669-686
EffThreadGone ==
  /\ activeWorkspaceId # NoId
  /\ activeThreadId # NoId
  /\ threads # {}
  /\ activeThreadId \notin threads

\* lines 348-367
EffHydrateThread ==
  /\ activeWorkspaceId # NoId
  /\ activeThreadId # NoId
  /\ ~(threadSnap.ts # 0 /\ threadSnap.threadId = activeThreadId
         /\ threadSnap.workspaceId = activeWorkspaceId)
  /\ LET cachedThread == getCachedThreadSnapshot(loadCloudCache(cache), activeWorkspaceId, activeThreadId)
     IN  /\ cachedThread.ts # 0
         /\ cachedThread.ts > lastThreadUpdatedAtByKey[activeThreadKey]

\* lines 731-743
EffLoadModeIdle ==
  \/ activeThreadId = NoId /\ threadLoadMode # "idle"
  \/ activeThreadId # NoId /\ threadLoadMode = "loading" /\ Len(activeItems) > 0

EffectPending == EffWorkspaceGone \/ EffThreadGone \/ EffHydrateThread \/ EffLoadModeIdle

RunEffects ==
  /\ EffectPending
  /\ activeWorkspaceId' = IF EffWorkspaceGone THEN NoId ELSE activeWorkspaceId
  /\ activeThreadId' = IF EffWorkspaceGone \/ EffThreadGone THEN NoId ELSE activeThreadId
  /\ IF EffHydrateThread
     THEN LET cachedThread == getCachedThreadSnapshot(loadCloudCache(cache), activeWorkspaceId, activeThreadId)
          IN  /\ lastThreadUpdatedAtByKey' =
                   [lastThreadUpdatedAtByKey EXCEPT ![activeThreadKey] = cachedThread.ts]
              /\ threadSnap' = cachedThread
     ELSE UNCHANGED <<lastThreadUpdatedAtByKey, threadSnap>>
  /\ threadLoadMode' = IF EffLoadModeIdle THEN "idle" ELSE threadLoadMode
  /\ UNCHANGED <<now, telemetryEvents, runnerId, runnerOnline, global, workspaceSnaps, pendingByThreadKey,
                 awaitingByThreadKey, awaitingOrder, localItemsByThreadKey,
                 lastWorkspaceUpdatedAt, lastWorkspaceFetchAt, lastThreadFetchAt,
                 lastBackgroundThreadFetchAtByKey, lastSendRef, cache, ticks, selFetches,
                 submits, polls, outbox, results, nextCommandId>>
  /\ UNCHANGED <<telemetry, unhandledRejections, cloudKitPollIntervalMs>>

\* lines 745-762: the 12 s timer that ends the "syncing" badge
SyncBadgeTimer ==
  /\ ~EffectPending
  /\ threadLoadMode = "syncing"
  /\ activeThreadId # NoId
  /\ Len(activeItems) > 0
  /\ threadLoadMode' = "idle"
  /\ UNCHANGED <<now, telemetryEvents, runnerId, runnerOnline, global, workspaceSnaps, threadSnap,
                 activeWorkspaceId, activeThreadId, pendingByThreadKey,
                 awaitingByThreadKey, awaitingOrder, localItemsByThreadKey,
                 lastThreadUpdatedAtByKey, lastWorkspaceUpdatedAt, lastWorkspaceFetchAt,
                 lastThreadFetchAt, lastBackgroundThreadFetchAtByKey, lastSendRef, cache,
                 ticks, selFetches, submits, polls, outbox, results, nextCommandId>>
  /\ UNCHANGED <<telemetry, unhandledRejections, cloudKitPollIntervalMs>>

-----------------------------------------------------------------------------
(* The scheduler tick, lines 414-615.  A tick in flight is a record: what its  *)
(* closure captured (aWs, aTh, loadMode, fast), the await it is suspended at   *)
(* (pc), and its locals (ids = idsToFetch, left = workspace fetches not yet    *)
(* answered, got = workspace snapshots its guard let through, tnow = the `now` *)
(* of line 518, bgKey = the background thread it fetches).                     *)

Replace(t, t2) == (ticks \ {t}) \cup {t2}

\* no guard: every parsed envelope passes
isNewer_Always(nextTs, prevTs) == TRUE

\* the timestamp guard of lines 496, 542, 586, 798, 886
isNewer(nextTs, prevTs) == nextTs > prevTs

isRunnerOnline(updatedAtMs) == now - updatedAtMs < RunnerOnlineWindowMs

TickStart ==
  /\ ~EffectPending
  /\ Cardinality(ticks) < MaxTicks
  /\ LET n == CHOOSE i \in 1..MaxTicks : \A t \in ticks : t.n # i
     IN  ticks' = ticks \cup
           {[n |-> n, aWs |-> activeWorkspaceId, aTh |-> activeThreadId,
             loadMode |-> threadLoadMode, fast |-> shouldFastPollActiveThread,
             pc |-> "runner", ids |-> <<>>, left |-> {},
             got |-> [w \in Workspaces |-> NoWorkspaceSnap], tnow |-> 0, bgKey |-> <<>>]}
  /\ UNCHANGED <<now, telemetryEvents, runnerId, runnerOnline, global, workspaceSnaps, threadSnap,
                 activeWorkspaceId, activeThreadId, threadLoadMode, pendingByThreadKey,
                 awaitingByThreadKey, awaitingOrder, localItemsByThreadKey,
                 lastThreadUpdatedAtByKey, lastWorkspaceUpdatedAt, lastWorkspaceFetchAt,
                 lastThreadFetchAt, lastBackgroundThreadFetchAtByKey, lastSendRef, cache,
                 selFetches, submits, polls, outbox, results, nextCommandId>>
  /\ UNCHANGED <<telemetry, unhandledRejections, cloudKitPollIntervalMs>>

\* the no-runner branch taken for the branch of lines 402-409: the snapshots
\* in memory dropped with the runner
TickRunner_DropsSnapshots(t, runner, updatedAtMs) ==
  /\ ~EffectPending
  /\ t \in ticks /\ t.pc = "runner"
  /\ IF runner = "throw"
     THEN /\ ticks' = ticks \ {t}
          /\ UNCHANGED <<runnerId, runnerOnline, cache, global, workspaceSnaps, threadSnap>>
     ELSE IF runner = NoId
     THEN /\ runnerId' = NoId
          /\ runnerOnline' = FALSE
          /\ global' = NoGlobal
          /\ workspaceSnaps' = [w \in Workspaces |-> NoWorkspaceSnap]
          /\ threadSnap' = NoThreadSnap
          /\ ticks' = ticks \ {t}
          /\ UNCHANGED cache
     ELSE /\ runnerId' = runner
          /\ runnerOnline' = isRunnerOnline(updatedAtMs)
          /\ cache' = writeCloudCacheRunner(cache, runner)
          /\ ticks' = Replace(t, [t EXCEPT !.pc = "global"])
          /\ UNCHANGED <<global, workspaceSnaps, threadSnap>>
  /\ UNCHANGED <<now, telemetryEvents,
                 activeWorkspaceId, activeThreadId, threadLoadMode, pendingByThreadKey,
                 awaitingByThreadKey, awaitingOrder, localItemsByThreadKey,
                 lastThreadUpdatedAtByKey, lastWorkspaceUpdatedAt, lastWorkspaceFetchAt,
                 lastThreadFetchAt, lastBackgroundThreadFetchAtByKey, lastSendRef,
                 selFetches, submits, polls, outbox, results, nextCommandId>>
  /\ UNCHANGED <<telemetry, unhandledRejections, cloudKitPollIntervalMs>>

\* lines 418-429; runner = NoId is "no runner", "throw" a call that throws
TickRunner(t, runner, updatedAtMs) ==
  /\ ~EffectPending
  /\ t \in ticks /\ t.pc = "runner"
  /\ IF runner = "throw"
     THEN /\ ticks' = ticks \ {t}
          /\ UNCHANGED <<runnerId, runnerOnline, cache>>
     ELSE IF runner = NoId
     THEN /\ runnerId' = NoId
          /\ runnerOnline' = FALSE
          /\ ticks' = ticks \ {t}
          /\ UNCHANGED cache
     ELSE /\ runnerId' = runner
          /\ runnerOnline' = isRunnerOnline(updatedAtMs)
          /\ cache' = writeCloudCacheRunner(cache, runner)
          /\ ticks' = Replace(t, [t EXCEPT !.pc = "global"])
  /\ UNCHANGED <<now, telemetryEvents, global, workspaceSnaps, threadSnap,
                 activeWorkspaceId, activeThreadId, threadLoadMode, pendingByThreadKey,
                 awaitingByThreadKey, awaitingOrder, localItemsByThreadKey,
                 lastThreadUpdatedAtByKey, lastWorkspaceUpdatedAt, lastWorkspaceFetchAt,
                 lastThreadFetchAt, lastBackgroundThreadFetchAtByKey, lastSendRef,
                 selFetches, submits, polls, outbox, results, nextCommandId>>
  /\ UNCHANGED <<telemetry, unhandledRejections, cloudKitPollIntervalMs>>

\* lines 559-607: the first awaiting key that is not the tick's thread and whose
\* last background fetch is at least a poll interval old
RECURSIVE bgPick(_, _, _)
bgPick(keys, t, tnow) ==
  IF keys = <<>> THEN <<>>
  ELSE IF Head(keys) = threadKey(t.aWs, t.aTh) THEN bgPick(Tail(keys), t, tnow)
  ELSE IF tnow - lastBackgroundThreadFetchAtByKey[Head(keys)] < pollIntervalMs
       THEN bgPick(Tail(keys), t, tnow)
  ELSE Head(keys)

\* lines 557-608 up to the await of line 571
BgSection(t, tnow) ==
  LET key == bgPick(awaitingOrder, t, tnow)
  IN  IF key = <<>>
      THEN /\ ticks' = ticks \ {t}
           /\ UNCHANGED lastBackgroundThreadFetchAtByKey
      ELSE /\ lastBackgroundThreadFetchAtByKey' =
                [lastBackgroundThreadFetchAtByKey EXCEPT ![key] = tnow]
           /\ ticks' = Replace(t, [t EXCEPT !.pc = "bg", !.bgKey = key, !.tnow = tnow])

\* lines 517-527 and 609-611, up to the await of line 527
ThreadSection(t) ==
  IF t.aWs # NoId /\ t.aTh # NoId
  THEN LET refreshMs == IF t.loadMode # "idle" \/ t.fast
                        THEN pollIntervalMs
                        ELSE Max(pollIntervalMs * 2, ThreadIdleRefreshFloorMs)
       IN  IF now - lastThreadFetchAt >= refreshMs
           THEN /\ lastThreadFetchAt' = now
                /\ ticks' = Replace(t, [t EXCEPT !.pc = "thread", !.tnow = now])
                /\ UNCHANGED <<threadSnap, lastBackgroundThreadFetchAtByKey>>
           ELSE /\ BgSection(t, now)
                /\ UNCHANGED <<lastThreadFetchAt, threadSnap>>
  ELSE /\ threadSnap' = NoThreadSnap
       /\ ticks' = ticks \ {t}
       /\ UNCHANGED <<lastThreadFetchAt, lastBackgroundThreadFetchAtByKey>>

\* lines 463-469 without the break of line 464
RECURSIVE addNeverFetched_NoBreak(_, _)
addNeverFetched_NoBreak(ids, rest) ==
  IF rest = <<>> THEN ids
  ELSE IF Contains(ids, Head(rest)) THEN addNeverFetched_NoBreak(ids, Tail(rest))
  ELSE IF lastWorkspaceUpdatedAt[Head(rest)] = 0
       THEN addNeverFetched_NoBreak(Append(ids, Head(rest)), Tail(rest))
  ELSE addNeverFetched_NoBreak(ids, Tail(rest))

\* lines 463-469
RECURSIVE addNeverFetched(_, _)
addNeverFetched(ids, rest) ==
  IF rest = <<>> \/ Len(ids) >= 2 THEN ids
  ELSE IF Contains(ids, Head(rest)) THEN addNeverFetched(ids, Tail(rest))
  ELSE IF lastWorkspaceUpdatedAt[Head(rest)] = 0
       THEN addNeverFetched(Append(ids, Head(rest)), Tail(rest))
  ELSE addNeverFetched(ids, Tail(rest))

\* lines 454-469
idsToFetch(t, workspaceIds) ==
  addNeverFetched(IF t.aWs # NoId /\ Contains(workspaceIds, t.aWs)
                  THEN <<t.aWs>> ELSE <<workspaceIds[1]>>,
                  workspaceIds)

\* lines 431-481: the global answer is applied as it comes; then the workspace
\* fetches start, or the tick goes on to the thread section
TickGlobal(t, record) ==
  /\ ~EffectPending
  /\ t \in ticks /\ t.pc = "global"
  /\ IF record = Throws
     THEN /\ ticks' = ticks \ {t}
          /\ UNCHANGED <<global, cache, lastWorkspaceFetchAt, lastThreadFetchAt,
                         threadSnap, lastBackgroundThreadFetchAtByKey>>
     ELSE LET ok == Parsed(record)
              workspaceIds == IF ok THEN record.workspaces ELSE <<>>
              ids == IF workspaceIds = <<>> THEN <<>> ELSE idsToFetch(t, workspaceIds)
              refreshMs == Max(pollIntervalMs * 2, WorkspaceRefreshFloorMs)
              fetched == {w \in SeqToSet(ids) :
                            ~(lastWorkspaceFetchAt[w] # 0
                              /\ now - lastWorkspaceFetchAt[w] < refreshMs)}
          IN  /\ global' = IF ok THEN record ELSE global
              /\ cache' = IF ok THEN writeCloudCacheGlobal(cache, record) ELSE cache
              /\ lastWorkspaceFetchAt' =
                   [w \in Workspaces |-> IF w \in fetched THEN now ELSE lastWorkspaceFetchAt[w]]
              /\ IF fetched = {}
                 THEN ThreadSection(t)
                 ELSE /\ ticks' = Replace(t, [t EXCEPT !.pc = "ws", !.ids = ids, !.left = fetched])
                      /\ UNCHANGED <<lastThreadFetchAt, threadSnap,
                                     lastBackgroundThreadFetchAtByKey>>
  /\ UNCHANGED <<now, telemetryEvents, runnerId, runnerOnline, workspaceSnaps,
                 activeWorkspaceId, activeThreadId, threadLoadMode, pendingByThreadKey,
                 awaitingByThreadKey, awaitingOrder, localItemsByThreadKey,
                 lastThreadUpdatedAtByKey, lastWorkspaceUpdatedAt, lastSendRef,
                 selFetches, submits, polls, outbox, results, nextCommandId>>
  /\ UNCHANGED <<telemetry, unhandledRejections, cloudKitPollIntervalMs>>

\* lines 506-511: writeCloudCacheWorkspace for each snapshot that passed
RECURSIVE writeWorkspaces(_, _, _)
writeWorkspaces(c, ids, got) ==
  IF ids = <<>> THEN c
  ELSE writeWorkspaces(IF got[Head(ids)].ts # 0
                       THEN writeCloudCacheWorkspace(c, got[Head(ids)]) ELSE c,
                       Tail(ids), got)

\* lines 481-515: one workspace answer passes the guard of line 496 when it
\* comes; the snapshots that passed are put into state and cache once every
\* fetch of the tick has answered (Promise.all)
TickWsArrive(t, w, record) ==
  /\ ~EffectPending
  /\ t \in ticks /\ t.pc = "ws" /\ w \in t.left
  /\ LET ok == Parsed(record) /\ isNewer(record.ts, lastWorkspaceUpdatedAt[w])
         got == IF ok THEN [t.got EXCEPT ![w] = record] ELSE t.got
         left == t.left \ {w}
         accepted == {x \in Workspaces : got[x].ts # 0}
     IN  /\ lastWorkspaceUpdatedAt' =
              IF ok THEN [lastWorkspaceUpdatedAt EXCEPT ![w] = record.ts]
              ELSE lastWorkspaceUpdatedAt
         /\ IF left # {}
            THEN /\ ticks' = Replace(t, [t EXCEPT !.got = got, !.left = left])
                 /\ UNCHANGED <<workspaceSnaps, cache, lastThreadFetchAt, threadSnap,
                                lastBackgroundThreadFetchAtByKey>>
            ELSE /\ workspaceSnaps' =
                      [x \in Workspaces |-> IF x \in accepted THEN got[x] ELSE workspaceSnaps[x]]
                 /\ cache' = writeWorkspaces(cache, t.ids, got)
                 /\ ThreadSection(t)
  /\ UNCHANGED <<now, telemetryEvents, runnerId, runnerOnline, global,
                 activeWorkspaceId, activeThreadId, threadLoadMode, pendingByThreadKey,
                 awaitingByThreadKey, awaitingOrder, localItemsByThreadKey,
                 lastThreadUpdatedAtByKey, lastWorkspaceFetchAt, lastSendRef,
                 selFetches, submits, polls, outbox, results, nextCommandId>>
  /\ UNCHANGED <<telemetry, unhandledRejections, cloudKitPollIntervalMs>>

\* the entry left in the map
deleteKey_Keep(map, key, none) == map

\* lines 221-232, 1010-1015, 1068-1073, 1112-1123, 1160-1171: delete next[key]
deleteKey(map, key, none) == [map EXCEPT ![key] = none]

\* the awaiting and pending maps after applyAwaitingResolutionFromItems
ResolveFromItems(key, items) ==
  IF awaitingResolved(awaitingByThreadKey, key, items)
  THEN /\ awaitingByThreadKey' = deleteKey(awaitingByThreadKey, key, NoAwaiting)
       /\ awaitingOrder' = Without(awaitingOrder, key)
       /\ pendingByThreadKey' = deleteKey(pendingByThreadKey, key, NoPending)
  ELSE UNCHANGED <<awaitingByThreadKey, awaitingOrder, pendingByThreadKey>>

\* lines 527-556: the answer for the tick's thread
TickThreadArrive(t, record) ==
  /\ ~EffectPending
  /\ t \in ticks /\ t.pc = "thread"
  /\ LET key == threadKey(t.aWs, t.aTh)
         accept == Parsed(record) /\ isNewer(record.ts, lastThreadUpdatedAtByKey[key])
     IN  /\ IF accept
            THEN /\ lastThreadUpdatedAtByKey' =
                      [lastThreadUpdatedAtByKey EXCEPT ![key] = record.ts]
                 /\ threadSnap' = record
                 /\ cache' = writeCloudCacheThread(cache, record)
                 /\ IF record.items # <<>>
                    THEN /\ localItemsByThreadKey' =
                              reconcileLocalItems(localItemsByThreadKey, key, record.items)
                         /\ ResolveFromItems(key, record.items)
                    ELSE UNCHANGED <<localItemsByThreadKey, awaitingByThreadKey,
                                     awaitingOrder, pendingByThreadKey>>
                 /\ threadLoadMode' = "idle"
            ELSE UNCHANGED <<lastThreadUpdatedAtByKey, threadSnap, cache,
                             localItemsByThreadKey, awaitingByThreadKey, awaitingOrder,
                             pendingByThreadKey, threadLoadMode>>
         /\ IF record = Throws
            THEN /\ ticks' = ticks \ {t}
                 /\ UNCHANGED lastBackgroundThreadFetchAtByKey
            ELSE BgSection(t, t.tnow)
  /\ UNCHANGED <<now, telemetryEvents, runnerId, runnerOnline, global, workspaceSnaps,
                 activeWorkspaceId, activeThreadId, lastWorkspaceUpdatedAt,
                 lastWorkspaceFetchAt, lastThreadFetchAt, lastSendRef,
                 selFetches, submits, polls, outbox, results, nextCommandId>>
  /\ UNCHANGED <<telemetry, unhandledRejections, cloudKitPollIntervalMs>>

\* lines 571-606: the answer for a background thread
TickBgArrive(t, record) ==
  /\ ~EffectPending
  /\ t \in ticks /\ t.pc = "bg"
  /\ LET key == t.bgKey
         accept == Parsed(record) /\ isNewer(record.ts, lastThreadUpdatedAtByKey[key])
     IN  IF accept
         THEN /\ lastThreadUpdatedAtByKey' =
                   [lastThreadUpdatedAtByKey EXCEPT ![key] = record.ts]
              /\ cache' = writeCloudCacheThread(cache, record)
              /\ IF record.items # <<>>
                 THEN /\ localItemsByThreadKey' =
                           reconcileLocalItems(localItemsByThreadKey, key, record.items)
                      /\ ResolveFromItems(key, record.items)
                 ELSE UNCHANGED <<localItemsByThreadKey, awaitingByThreadKey,
                                  awaitingOrder, pendingByThreadKey>>
         ELSE UNCHANGED <<lastThreadUpdatedAtByKey, cache, localItemsByThreadKey,
                          awaitingByThreadKey, awaitingOrder, pendingByThreadKey>>
  /\ ticks' = ticks \ {t}
  /\ UNCHANGED <<now, telemetryEvents, runnerId, runnerOnline, global, workspaceSnaps, threadSnap,
                 activeWorkspaceId, activeThreadId, threadLoadMode,
                 lastWorkspaceUpdatedAt, lastWorkspaceFetchAt, lastThreadFetchAt,
                 lastBackgroundThreadFetchAtByKey, lastSendRef,
                 selFetches, submits, polls, outbox, results, nextCommandId>>
  /\ UNCHANGED <<telemetry, unhandledRejections, cloudKitPollIntervalMs>>

-----------------------------------------------------------------------------
(* Selecting in the sidebar *)

\* onSelectHome, lines 1334-1340
SelectHome ==
  /\ ~EffectPending
  /\ activeWorkspaceId # NoId
  /\ activeWorkspaceId' = NoId
  /\ activeThreadId' = NoId
  /\ UNCHANGED <<now, telemetryEvents, runnerId, runnerOnline, global, workspaceSnaps, threadSnap,
                 threadLoadMode, pendingByThreadKey,
                 awaitingByThreadKey, awaitingOrder, localItemsByThreadKey,
                 lastThreadUpdatedAtByKey, lastWorkspaceUpdatedAt, lastWorkspaceFetchAt,
                 lastThreadFetchAt, lastBackgroundThreadFetchAtByKey, lastSendRef, cache,
                 ticks, selFetches, submits, polls, outbox, results, nextCommandId>>
  /\ UNCHANGED <<telemetry, unhandledRejections, cloudKitPollIntervalMs>>

\* handleSelectWorkspace, lines 768-817, up to the await of line 784
handleSelectWorkspace(id) ==
  /\ ~EffectPending
  /\ activeWorkspaceId' = id
  /\ activeThreadId' = NoId
  /\ threadLoadMode' = "idle"
  /\ lastThreadFetchAt' = 0
  /\ IF runnerId # NoId
     THEN /\ Cardinality(selFetches) < MaxSelFetches
          /\ selFetches' = selFetches \cup {[scope |-> "ws", workspaceId |-> id, threadId |-> NoId]}
     ELSE UNCHANGED selFetches
  /\ UNCHANGED <<now, telemetryEvents, runnerId, runnerOnline, global, workspaceSnaps, threadSnap,
                 pendingByThreadKey,
                 awaitingByThreadKey, awaitingOrder, localItemsByThreadKey,
                 lastThreadUpdatedAtByKey, lastWorkspaceUpdatedAt, lastWorkspaceFetchAt,
                 lastBackgroundThreadFetchAtByKey, lastSendRef, cache,
                 ticks, submits, polls, outbox, results, nextCommandId>>
  /\ UNCHANGED <<telemetry, unhandledRejections, cloudKitPollIntervalMs>>

\* lines 784-812: the answer of the select-triggered workspace fetch
SelectWorkspaceArrive(f, record) ==
  /\ ~EffectPending
  /\ f \in selFetches /\ f.scope = "ws"
  /\ selFetches' = selFetches \ {f}
  /\ IF Parsed(record) /\ isNewer(record.ts, lastWorkspaceUpdatedAt[f.workspaceId])
     THEN /\ lastWorkspaceUpdatedAt' =
               [lastWorkspaceUpdatedAt EXCEPT ![f.workspaceId] = record.ts]
          /\ workspaceSnaps' = [workspaceSnaps EXCEPT ![f.workspaceId] = record]
          /\ cache' = writeCloudCacheWorkspace(cache, record)
     ELSE UNCHANGED <<lastWorkspaceUpdatedAt, workspaceSnaps, cache>>
  /\ UNCHANGED <<now, telemetryEvents, runnerId, runnerOnline, global, threadSnap,
                 activeWorkspaceId, activeThreadId, threadLoadMode, pendingByThreadKey,
                 awaitingByThreadKey, awaitingOrder, localItemsByThreadKey,
                 lastThreadUpdatedAtByKey, lastWorkspaceFetchAt,
                 lastThreadFetchAt, lastBackgroundThreadFetchAtByKey, lastSendRef,
                 ticks, submits, polls, outbox, results, nextCommandId>>
  /\ UNCHANGED <<telemetry, unhandledRejections, cloudKitPollIntervalMs>>

\* handleSelectThread, lines 819-907, up to the await of line 870
handleSelectThread(workspaceId, threadId) ==
  /\ ~EffectPending
  /\ activeWorkspaceId' = workspaceId
  /\ activeThreadId' = threadId
  /\ lastThreadFetchAt' = 0
  /\ LET key == threadKey(workspaceId, threadId)
         cachedThread == getCachedThreadSnapshot(loadCloudCache(cache), workspaceId, threadId)
         hasCachedItems == cachedThread.ts # 0 /\ cachedThread.items # <<>>
     IN  /\ IF cachedThread.ts # 0
            THEN /\ lastThreadUpdatedAtByKey' =
                      IF cachedThread.ts > lastThreadUpdatedAtByKey[key]
                      THEN [lastThreadUpdatedAtByKey EXCEPT ![key] = cachedThread.ts]
                      ELSE lastThreadUpdatedAtByKey
                 /\ threadSnap' = cachedThread
            ELSE UNCHANGED <<lastThreadUpdatedAtByKey, threadSnap>>
         /\ threadLoadMode' = IF hasCachedItems THEN "syncing" ELSE "loading"
  /\ IF runnerId # NoId
     THEN /\ Cardinality(selFetches) < MaxSelFetches
          /\ selFetches' = selFetches \cup
               {[scope |-> "th", workspaceId |-> workspaceId, threadId |-> threadId]}
     ELSE UNCHANGED selFetches
  /\ UNCHANGED <<now, telemetryEvents, runnerId, runnerOnline, global, workspaceSnaps,
                 pendingByThreadKey,
                 awaitingByThreadKey, awaitingOrder, localItemsByThreadKey,
                 lastWorkspaceUpdatedAt, lastWorkspaceFetchAt,
                 lastBackgroundThreadFetchAtByKey, lastSendRef, cache,
                 ticks, submits, polls, outbox, results, nextCommandId>>
  /\ UNCHANGED <<telemetry, unhandledRejections, cloudKitPollIntervalMs>>

\* lines 870-902: the answer of the select-triggered thread fetch
SelectThreadArrive(f, record) ==
  /\ ~EffectPending
  /\ f \in selFetches /\ f.scope = "th"
  /\ selFetches' = selFetches \ {f}
  /\ LET key == threadKey(f.workspaceId, f.threadId)
     IN  IF Parsed(record) /\ isNewer(record.ts, lastThreadUpdatedAtByKey[key])
         THEN /\ lastThreadUpdatedAtByKey' =
                   [lastThreadUpdatedAtByKey EXCEPT ![key] = record.ts]
              /\ threadSnap' = record
              /\ cache' = writeCloudCacheThread(cache, record)
         ELSE UNCHANGED <<lastThreadUpdatedAtByKey, threadSnap, cache>>
  /\ UNCHANGED <<now, telemetryEvents, runnerId, runnerOnline, global, workspaceSnaps,
                 activeWorkspaceId, activeThreadId, threadLoadMode, pendingByThreadKey,
                 awaitingByThreadKey, awaitingOrder, localItemsByThreadKey,
                 lastWorkspaceUpdatedAt, lastWorkspaceFetchAt,
                 lastThreadFetchAt, lastBackgroundThreadFetchAtByKey, lastSendRef,
                 ticks, submits, polls, outbox, results, nextCommandId>>
  /\ UNCHANGED <<telemetry, unhandledRejections, cloudKitPollIntervalMs>>

-----------------------------------------------------------------------------
(* Commands *)

LocalId(commandId, role) == "local-" \o ToString(commandId) \o "-" \o role

\* `{...prev, [key]: value}` keeps the place of a key already there
withKey(order, key) == IF Contains(order, key) THEN order ELSE Append(order, key)

\* the guard left out: every send goes through
sendBlocked_Never(existingPending) == FALSE

\* lines 914-915: the single-flight guard
sendBlocked(existingPending) == existingPending.id # 0 /\ existingPending.phase # "error"

\* the debounce with the thread left uncompared
sendDebounced_AnyThread(lastSend, workspaceId, threadId, trimmed) ==
  /\ lastSend.atMs # 0
  /\ lastSend.workspaceId = workspaceId
  /\ lastSend.text = trimmed
  /\ now - lastSend.atMs < SendDebounceMs

\* lines 928-937: the debounce
sendDebounced(lastSend, workspaceId, threadId, trimmed) ==
  /\ lastSend.atMs # 0
  /\ lastSend.workspaceId = workspaceId
  /\ lastSend.threadId = threadId
  /\ lastSend.text = trimmed
  /\ now - lastSend.atMs < SendDebounceMs

\* whether handleSend(text) returns before line 938
sendRejected(text) ==
  \/ ~canSend
  \/ sendBlocked(pendingByThreadKey[activeThreadKey])
  \/ Trim(text) = ""
  \/ sendDebounced(lastSendRef, activeWorkspaceId, activeThreadId, Trim(text))

\* handleSend, lines 909-994, up to the await of line 981
handleSend(text) ==
  /\ ~EffectPending
  /\ IF sendRejected(text)
     THEN /\ telemetryEvents' =
               IF canSend /\ sendBlocked(pendingByThreadKey[activeThreadKey])
               THEN telemetryEvents \cup {"send.blocked"}
               ELSE telemetryEvents
          /\ UNCHANGED <<lastSendRef, pendingByThreadKey, awaitingByThreadKey, awaitingOrder,
                         localItemsByThreadKey, submits, outbox, nextCommandId>>
     ELSE LET key == activeThreadKey
              trimmed == Trim(text)
              commandId == nextCommandId
          IN  /\ nextCommandId <= MaxCommands
              /\ lastSendRef' = [workspaceId |-> activeWorkspaceId,
                                 threadId |-> activeThreadId, text |-> trimmed, atMs |-> now]
              /\ nextCommandId' = nextCommandId + 1
              /\ pendingByThreadKey' = [pendingByThreadKey EXCEPT ![key] =
                   [id |-> commandId, createdAt |-> now, phase |-> "submitting",
                    resultPayloadJson |-> "", error |-> ""]]
              /\ awaitingByThreadKey' = [awaitingByThreadKey EXCEPT ![key] =
                   [commandId |-> commandId, workspaceId |-> activeWorkspaceId,
                    threadId |-> activeThreadId, startedAtMs |-> now,
                    baselineAssistantCount |-> countAssistantMessages(activeItems)]]
              /\ awaitingOrder' = withKey(awaitingOrder, key)
              /\ localItemsByThreadKey' = [localItemsByThreadKey EXCEPT ![key] =
                   Append(@, Message(LocalId(commandId, "user"), "user", trimmed))]
              /\ submits' = submits \cup {[key |-> key, commandId |-> commandId]}
              /\ outbox' = outbox \cup
                   {[commandId |-> commandId, workspaceId |-> activeWorkspaceId,
                     threadId |-> activeThreadId, text |-> trimmed]}
              /\ UNCHANGED telemetryEvents
  /\ UNCHANGED <<now, runnerId, runnerOnline, global, workspaceSnaps, threadSnap,
                 activeWorkspaceId, activeThreadId, threadLoadMode,
                 lastThreadUpdatedAtByKey, lastWorkspaceUpdatedAt, lastWorkspaceFetchAt,
                 lastThreadFetchAt, lastBackgroundThreadFetchAtByKey, cache,
                 ticks, selFetches, polls, results>>
  /\ UNCHANGED <<telemetry, unhandledRejections, cloudKitPollIntervalMs>>

\* lines 995-999: cloudkitSubmitCommand resolved
SubmitResolved(s) ==
  /\ ~EffectPending
  /\ s \in submits
  /\ submits' = submits \ {s}
  /\ pendingByThreadKey' =
       IF pendingByThreadKey[s.key].id = 0 \/ pendingByThreadKey[s.key].id # s.commandId
       THEN pendingByThreadKey
       ELSE [pendingByThreadKey EXCEPT ![s.key].phase = "waitingResult"]
  /\ UNCHANGED <<now, telemetryEvents, runnerId, runnerOnline, global, workspaceSnaps, threadSnap,
                 activeWorkspaceId, activeThreadId, threadLoadMode,
                 awaitingByThreadKey, awaitingOrder, localItemsByThreadKey,
                 lastThreadUpdatedAtByKey, lastWorkspaceUpdatedAt, lastWorkspaceFetchAt,
                 lastThreadFetchAt, lastBackgroundThreadFetchAtByKey, lastSendRef, cache,
                 ticks, selFetches, polls, outbox, results, nextCommandId>>
  /\ UNCHANGED <<telemetry, unhandledRejections, cloudKitPollIntervalMs>>

\* lines 1000-1016: cloudkitSubmitCommand threw `message`
SubmitRejected(s, message) ==
  /\ ~EffectPending
  /\ s \in submits
  /\ submits' = submits \ {s}
  /\ pendingByThreadKey' = [pendingByThreadKey EXCEPT ![s.key] =
       [id |-> s.commandId, createdAt |-> now, phase |-> "error",
        resultPayloadJson |-> "", error |-> message]]
  /\ awaitingByThreadKey' = deleteKey(awaitingByThreadKey, s.key, NoAwaiting)
  /\ awaitingOrder' = Without(awaitingOrder, s.key)
  /\ UNCHANGED <<now, telemetryEvents, runnerId, runnerOnline, global, workspaceSnaps, threadSnap,
                 activeWorkspaceId, activeThreadId, threadLoadMode,
                 localItemsByThreadKey,
                 lastThreadUpdatedAtByKey, lastWorkspaceUpdatedAt, lastWorkspaceFetchAt,
                 lastThreadFetchAt, lastBackgroundThreadFetchAtByKey, lastSendRef, cache,
                 ticks, selFetches, polls, outbox, results, nextCommandId>>
  /\ UNCHANGED <<telemetry, unhandledRejections, cloudKitPollIntervalMs>>

\* the inline text left unread
assistantTextOf_None(payloadJson) == ""

\* Command results of the transport: none yet, or {ok, payloadJson}.  The
\* payloads are tokens; what JSON.parse(payloadJson).assistantText gives is
\* tabulated (lines 1088-1096): "" when the text is absent or the JSON is bad.
assistantTextOf(payloadJson) ==
  CASE payloadJson = "{assistantText:hello}" -> "hello"
    [] payloadJson = "{assistantText: }" -> " "
    [] OTHER -> ""

\* lines 1035-1047: the poll interval fires; one fetch per waitingResult entry
PollStart ==
  /\ ~EffectPending
  /\ runnerId # NoId
  /\ LET entries == {k \in ThreadKeys : pendingByThreadKey[k].phase = "waitingResult"}
         free(k) == {i \in 1..MaxPolls : \A p \in polls : ~(p.key = k /\ p.n = i)}
     IN  /\ entries # {}
         /\ \A k \in entries : free(k) # {}
         /\ polls' = polls \cup
              {[n |-> CHOOSE i \in free(k) : \A j \in free(k) : i <= j,
                key |-> k, pending |-> pendingByThreadKey[k]] : k \in entries}
  /\ UNCHANGED <<now, telemetryEvents, runnerId, runnerOnline, global, workspaceSnaps, threadSnap,
                 activeWorkspaceId, activeThreadId, threadLoadMode, pendingByThreadKey,
                 awaitingByThreadKey, awaitingOrder, localItemsByThreadKey,
                 lastThreadUpdatedAtByKey, lastWorkspaceUpdatedAt, lastWorkspaceFetchAt,
                 lastThreadFetchAt, lastBackgroundThreadFetchAtByKey, lastSendRef, cache,
                 ticks, selFetches, submits, outbox, results, nextCommandId>>
  /\ UNCHANGED <<telemetry, unhandledRejections, cloudKitPollIntervalMs>>

\* the phase left as it was: an entry that failed stays in a live phase
failedPending_PhaseKept(pending, result) ==
  [pending EXCEPT !.error = IF result.payloadJson = "" THEN "Command failed"
                            ELSE result.payloadJson]

\* the default message left out
failedPending_NoDefault(pending, result) ==
  [pending EXCEPT !.phase = "error", !.error = result.payloadJson]

\* lines 1059-1067: the pending entry an ok = false result leaves
failedPending(pending, result) ==
  [pending EXCEPT !.phase = "error",
                  !.error = IF result.payloadJson = "" THEN "Command failed"
                            ELSE result.payloadJson]

\* lines 1047-1132: the answer of one result fetch
PollArrive(p, result) ==
  /\ ~EffectPending
  /\ p \in polls
  /\ polls' = polls \ {p}
  /\ IF result = NoResult
     THEN UNCHANGED <<pendingByThreadKey, awaitingByThreadKey, awaitingOrder,
                      localItemsByThreadKey>>
     ELSE IF ~result.ok
     THEN /\ pendingByThreadKey' =
               [pendingByThreadKey EXCEPT ![p.key] = failedPending(p.pending, result)]
          /\ awaitingByThreadKey' = deleteKey(awaitingByThreadKey, p.key, NoAwaiting)
          /\ awaitingOrder' = Without(awaitingOrder, p.key)
          /\ UNCHANGED localItemsByThreadKey
     ELSE LET current == pendingByThreadKey[p.key]
              acknowledged ==
                IF current.id = 0 \/ current.id # p.pending.id THEN pendingByThreadKey
                ELSE [pendingByThreadKey EXCEPT ![p.key] =
                        [current EXCEPT !.phase = "waitingReply",
                                        !.resultPayloadJson = result.payloadJson]]
              assistantText == assistantTextOf(result.payloadJson)
          IN  IF Trim(assistantText) # ""
              THEN /\ localItemsByThreadKey' = [localItemsByThreadKey EXCEPT ![p.key] =
                        Append(@, Message(LocalId(p.pending.id, "assistant"),
                                          "assistant", assistantText))]
                   /\ awaitingByThreadKey' = deleteKey(awaitingByThreadKey, p.key, NoAwaiting)
                   /\ awaitingOrder' = Without(awaitingOrder, p.key)
                   /\ pendingByThreadKey' = deleteKey(acknowledged, p.key, NoPending)
              ELSE /\ pendingByThreadKey' = acknowledged
                   /\ UNCHANGED <<awaitingByThreadKey, awaitingOrder, localItemsByThreadKey>>
  /\ UNCHANGED <<now, telemetryEvents, runnerId, runnerOnline, global, workspaceSnaps, threadSnap,
                 activeWorkspaceId, activeThreadId, threadLoadMode,
                 lastThreadUpdatedAtByKey, lastWorkspaceUpdatedAt, lastWorkspaceFetchAt,
                 lastThreadFetchAt, lastBackgroundThreadFetchAtByKey, lastSendRef, cache,
                 ticks, selFetches, submits, outbox, results, nextCommandId>>
  /\ UNCHANGED <<telemetry, unhandledRejections, cloudKitPollIntervalMs>>

\* the ceiling left unchecked: no record ever times out
replyTimedOut_Never(awaiting) == FALSE

\* line 1150: an awaiting record the timeout check clears
replyTimedOut(awaiting) ==
  awaiting.commandId # 0 /\ ~(now - awaiting.startedAtMs < ReplyTimeoutMs)

\* lines 1149-1172: the forEach over the awaited keys, on one of the two maps
RECURSIVE clearTimedOut(_, _, _)
clearTimedOut(map, keys, none) ==
  IF keys = <<>> THEN map
  ELSE clearTimedOut(IF replyTimedOut(awaitingByThreadKey[Head(keys)])
                     THEN deleteKey(map, Head(keys), none) ELSE map,
                     Tail(keys), none)

\* lines 1143-1176: the 10 s interval that exists while a record is awaited
ReplyTimeoutCheck ==
  /\ ~EffectPending
  /\ awaitingOrder # <<>>
  /\ LET expired == {k \in SeqToSet(awaitingOrder) : replyTimedOut(awaitingByThreadKey[k])}
     IN  /\ awaitingByThreadKey' = clearTimedOut(awaitingByThreadKey, awaitingOrder, NoAwaiting)
         /\ pendingByThreadKey' = clearTimedOut(pendingByThreadKey, awaitingOrder, NoPending)
         /\ awaitingOrder' = SelectSeqBy(awaitingOrder, SeqToSet(awaitingOrder) \ expired)
         /\ telemetryEvents' = IF expired = {} THEN telemetryEvents
                               ELSE telemetryEvents \cup {"reply.timeout"}
  /\ UNCHANGED <<now, runnerId, runnerOnline, global, workspaceSnaps, threadSnap,
                 activeWorkspaceId, activeThreadId, threadLoadMode,
                 localItemsByThreadKey,
                 lastThreadUpdatedAtByKey, lastWorkspaceUpdatedAt, lastWorkspaceFetchAt,
                 lastThreadFetchAt, lastBackgroundThreadFetchAtByKey, lastSendRef, cache,
                 ticks, selFetches, submits, polls, outbox, results, nextCommandId>>
  /\ UNCHANGED <<telemetry, unhandledRejections, cloudKitPollIntervalMs>>

-----------------------------------------------------------------------------
(* The environment: the clock and the writer *)

\* time passes, to one of the clock readings of the run
Advance(instants) ==
  /\ ~EffectPending
  /\ \E t \in instants : t > now /\ now' = t
  /\ UNCHANGED <<telemetryEvents, runnerId, runnerOnline, global, workspaceSnaps, threadSnap,
                 activeWorkspaceId, activeThreadId, threadLoadMode, pendingByThreadKey,
                 awaitingByThreadKey, awaitingOrder, localItemsByThreadKey,
                 lastThreadUpdatedAtByKey, lastWorkspaceUpdatedAt, lastWorkspaceFetchAt,
                 lastThreadFetchAt, lastBackgroundThreadFetchAtByKey, lastSendRef, cache,
                 ticks, selFetches, submits, polls, outbox, results, nextCommandId>>
  /\ UNCHANGED <<telemetry, unhandledRejections, cloudKitPollIntervalMs>>

\* the writer stores the result of a command it was handed, once
WriterResult(commandId, result) ==
  /\ ~EffectPending
  /\ \E c \in outbox : c.commandId = commandId
  /\ results[commandId] = NoResult
  /\ results' = [results EXCEPT ![commandId] = result]
  /\ UNCHANGED <<now, telemetryEvents, runnerId, runnerOnline, global, workspaceSnaps, threadSnap,
                 activeWorkspaceId, activeThreadId, threadLoadMode, pendingByThreadKey,
                 awaitingByThreadKey, awaitingOrder, localItemsByThreadKey,
                 lastThreadUpdatedAtByKey, lastWorkspaceUpdatedAt, lastWorkspaceFetchAt,
                 lastThreadFetchAt, lastBackgroundThreadFetchAtByKey, lastSendRef, cache,
                 ticks, selFetches, submits, polls, outbox, nextCommandId>>
  /\ UNCHANGED <<telemetry, unhandledRejections, cloudKitPollIntervalMs>>

-----------------------------------------------------------------------------
(* What the store and the transport can answer *)

Unparsable == [v |-> 2, ts |-> 1]
Timestamps == 1..MaxTs

GlobalRecords(lists) ==
  {NoRecord, Throws, Unparsable} \cup {GlobalSnapshot(ts, l) : ts \in Timestamps, l \in lists}
WorkspaceRecords(w, threadSets) ==
  {NoRecord, Throws} \cup {WorkspaceSnapshot(ts, w, ths) : ts \in Timestamps, ths \in threadSets}
ThreadRecords(key, payloads) ==
  {NoRecord, Throws} \cup
  {ThreadSnapshot(ts, key, p.items, p.thread) : ts \in Timestamps, p \in payloads}

Reply == Message("m1", "assistant", "yo")
RawReply == [type |-> "agentMessage", id |-> "m1", text |-> "yo"]

\* the cache a previous session left
SeedCache ==
  writeCloudCacheThread(
    writeCloudCacheWorkspace(
      writeCloudCacheGlobal(writeCloudCacheRunner(EmptyCache, "r1"),
                            GlobalSnapshot(1, <<"w1", "w2">>)),
      WorkspaceSnapshot(1, "w1", {"tA", "tB"})),
    ThreadSnapshot(1, threadKey("w1", "tA"), <<Reply>>, <<>>))

-----------------------------------------------------------------------------
(* SpecWs: the scheduler on the global and workspace scopes.  No thread is    *)
(* ever selected, so every tick ends at line 610.                              *)

Instants == {Epoch + i * 10000 : i \in 0..MaxInstants}
WsGlobalLists == {<<"w1", "w2">>, <<"w2">>}
WsThreadSets == {{"tA", "tB"}}

InitWs ==
  /\ now = Epoch
  /\ \E cached \in {EmptyCache, SeedCache} : InitFrom(cached, <<>>, FALSE)

NextWs ==
  \/ RunEffects
  \/ TickStart
  \/ \E t \in ticks, runner \in {NoId, "r1", "throw"},
        updatedAtMs \in {now, now - RunnerOnlineWindowMs} : TickRunner(t, runner, updatedAtMs)
  \/ \E t \in ticks, record \in GlobalRecords(WsGlobalLists) : TickGlobal(t, record)
  \/ \E t \in ticks, w \in Workspaces : \E record \in WorkspaceRecords(w, WsThreadSets) :
        TickWsArrive(t, w, record)
  \/ SelectHome
  \/ \E w \in {"w1", "w2"} : handleSelectWorkspace(w)
  \/ \E f \in selFetches : \E record \in WorkspaceRecords(f.workspaceId, WsThreadSets) :
        SelectWorkspaceArrive(f, record)
  \/ Advance(Instants)

SpecWs == InitWs /\ [][NextWs]_vars

-----------------------------------------------------------------------------
(* SpecThread: the scheduler and the selection handlers on the thread scopes, *)
(* with one global and one workspace snapshot in the store.                   *)

ThGlobalLists == {<<"w1">>}
ThThreadSets == {{"tA", "tB"}}
ThPayloads == {[items |-> <<Reply>>, thread |-> <<>>], [items |-> <<>>, thread |-> <<RawReply>>]}
ThGlobalRecords == {GlobalSnapshot(1, l) : l \in ThGlobalLists}
ThWorkspaceRecords(w) == {WorkspaceSnapshot(1, w, ths) : ths \in ThThreadSets}

InitThread ==
  \/ InitFrom(EmptyCache, <<>>, FALSE)
  \/ InitFrom(SeedCache, threadKey("w1", "tA"), FALSE)

NextThread ==
  \/ RunEffects
  \/ SyncBadgeTimer
  \/ TickStart
  \/ \E t \in ticks : TickRunner(t, "r1", now)
  \/ \E t \in ticks, record \in ThGlobalRecords : TickGlobal(t, record)
  \/ \E t \in ticks, w \in Workspaces : \E record \in ThWorkspaceRecords(w) :
        TickWsArrive(t, w, record)
  \/ \E t \in ticks, k \in SidebarKeys : \E record \in ThreadRecords(k, ThPayloads) :
        k = threadKey(t.aWs, t.aTh) /\ TickThreadArrive(t, record)
  \/ SelectHome
  \/ \E k \in SidebarKeys : handleSelectThread(k[1], k[2])
  \/ \E f \in selFetches, k \in SidebarKeys : \E record \in ThreadRecords(k, ThPayloads) :
        k = threadKey(f.workspaceId, f.threadId) /\ SelectThreadArrive(f, record)
  \/ Advance(Instants)

SpecThread == InitThread /\ [][NextThread]_vars

-----------------------------------------------------------------------------
(* SpecCmd: commands on one thread.  The session starts with runner, global   *)
(* and workspace snapshots in the cache and thread tA of w1 restored as the   *)
(* selection; the user sends, the transport and the writer answer or do not,  *)
(* the scheduler polls the thread, and time passes.                            *)

CmdSeed ==
  writeCloudCacheWorkspace(
    writeCloudCacheGlobal(writeCloudCacheRunner(EmptyCache, "r1"), GlobalSnapshot(1, <<"w1">>)),
    WorkspaceSnapshot(1, "w1", {"tA", "tB"}))

Hi == Message("u1", "user", "hi")
Reply2 == Message("m2", "assistant", "ok")
CmdPayloads ==
  {[items |-> <<Reply>>, thread |-> <<>>],
   [items |-> <<Reply, Hi>>, thread |-> <<>>],
   [items |-> <<Reply, Hi, Reply2>>, thread |-> <<>>]}
CmdTexts == {"hi", " hi", " "}
CmdResults ==
  {[ok |-> TRUE, payloadJson |-> "{assistantText:hello}"],
   [ok |-> TRUE, payloadJson |-> "{}"],
   [ok |-> FALSE, payloadJson |-> ""]}
CmdInstants == {Epoch + i * ReplyTimeoutMs : i \in 0..MaxInstants}

InitCmd ==
  /\ now = Epoch
  /\ \E cached \in {CmdSeed, SeedCache} : InitFrom(cached, threadKey("w1", "tA"), FALSE)

NextCmd ==
  \/ RunEffects
  \/ TickStart
  \/ \E t \in ticks : TickRunner(t, "r1", now)
  \/ \E t \in ticks : TickGlobal(t, NoRecord)
  \/ \E t \in ticks : \E record \in ThreadRecords(threadKey(t.aWs, t.aTh), CmdPayloads) :
        TickThreadArrive(t, record)
  \/ \E text \in CmdTexts : handleSend(text)
  \/ \E s \in submits : SubmitResolved(s)
  \/ \E s \in submits : SubmitRejected(s, "offline")
  \/ PollStart
  \/ \E p \in polls : PollArrive(p, results[p.pending.id])
  \/ ReplyTimeoutCheck
  \/ \E c \in 1..MaxCommands, result \in CmdResults : WriterResult(c, result)
  \/ Advance(CmdInstants)

SpecCmd == InitCmd /\ [][NextCmd]_vars

-----------------------------------------------------------------------------
(* Properties of the command lifecycle, checked under SpecCmd *)

userMessages(items, text) ==
  Cardinality({i \in 1..Len(items) :
                 items[i].kind = "message" /\ items[i].role = "user" /\ items[i].text = text})
keyOf(command) == threadKey(command.workspaceId, command.threadId)
InlineHello == [ok |-> TRUE, payloadJson |-> "{assistantText:hello}"]

\* C2: while the active thread key has a pending command in a non-error phase,
\* a send is a no-op: nothing is dispatched, no command id is drawn, and the
\* pending, awaiting-reply and overlay maps stay as they are.
C2_SingleFlight ==
  [][((\E text \in CmdTexts : handleSend(text)) /\ isLive(activePending))
       => UNCHANGED <<pendingByThreadKey, awaitingByThreadKey, awaitingOrder,
                      localItemsByThreadKey, outbox, submits, nextCommandId>>]_vars

\* a send was blocked while the one command dispatched so far was still submitting
C2_Witness ==
  /\ "send.blocked" \in telemetryEvents
  /\ activePending.phase = "submitting"
  /\ Cardinality(outbox) = 1

C4_SnapshotGrowth ==
  [][\A t \in ticks :
       \A record \in ThreadRecords(threadKey(t.aWs, t.aTh), CmdPayloads) :
         (/\ TickThreadArrive(t, record)
          /\ Parsed(record)
          /\ record.ts > lastThreadUpdatedAtByKey[threadKey(t.aWs, t.aTh)]
          /\ isLive(pendingByThreadKey[threadKey(t.aWs, t.aTh)])
          /\ countAssistantMessages(record.items) >
               awaitingByThreadKey[threadKey(t.aWs, t.aTh)].baselineAssistantCount)
         => /\ pendingByThreadKey'[threadKey(t.aWs, t.aTh)] = NoPending
            /\ awaitingByThreadKey'[threadKey(t.aWs, t.aTh)] = NoAwaiting]_vars

\* a command was dispatched, the transport stored no result, no time passed, and
\* the command is gone: a snapshot resolved it
C4_Witness ==
  /\ outbox # {}
  /\ \A c \in 1..MaxCommands : results[c] = NoResult
  /\ now = Epoch
  /\ \A k \in ThreadKeys : pendingByThreadKey[k] = NoPending /\ awaitingByThreadKey[k] = NoAwaiting
  /\ threadSnap.ts # 0

\* C5: when a result poll of a command in phase waitingResult is answered
\* ok = true with the non-blank inline text "hello", the step appends an
\* assistant item with that text to the overlay of the thread key and removes
\* the pending command and the awaiting record; no snapshot is fetched for it.
C5_InlineResult ==
  [][\A p \in polls :
       (/\ PollArrive(p, InlineHello)
        /\ results[p.pending.id] = InlineHello
        /\ pendingByThreadKey[p.key].id = p.pending.id
        /\ pendingByThreadKey[p.key].phase = "waitingResult")
       => /\ Contains(localItemsByThreadKey'[p.key],
                      Message(LocalId(p.pending.id, "assistant"), "assistant", "hello"))
          /\ pendingByThreadKey'[p.key] = NoPending
          /\ awaitingByThreadKey'[p.key] = NoAwaiting
          /\ UNCHANGED <<threadSnap, lastThreadUpdatedAtByKey, ticks>>]_vars

\* the inline text of command 1 is in the overlay and nothing is pending
C5_Witness ==
  \E k \in ThreadKeys :
    /\ Contains(localItemsByThreadKey[k], Message(LocalId(1, "assistant"), "assistant", "hello"))
    /\ pendingByThreadKey[k] = NoPending
    /\ awaitingByThreadKey[k] = NoAwaiting

\* C6: a timeout check removes every awaiting record that is 15 minutes old or
\* older together with the pending command of its thread key (removed, not
\* moved to the error phase), keeps the overlay, and dispatches nothing.
C6_Timeout ==
  [][ReplyTimeoutCheck
       => /\ \A k \in ThreadKeys :
               (/\ awaitingByThreadKey[k].commandId # 0
                /\ now - awaitingByThreadKey[k].startedAtMs >= ReplyTimeoutMs)
               => awaitingByThreadKey'[k] = NoAwaiting /\ pendingByThreadKey'[k] = NoPending
          /\ UNCHANGED <<localItemsByThreadKey, outbox, submits, threadSnap>>]_vars

\* a reply timed out: the command is gone and its overlay item is still there
C6_Witness ==
  /\ "reply.timeout" \in telemetryEvents
  /\ \E k \in ThreadKeys :
       /\ localItemsByThreadKey[k] # <<>>
       /\ pendingByThreadKey[k] = NoPending
       /\ awaitingByThreadKey[k] = NoAwaiting

\* C8: a submission that throws and a polled result with ok = false both leave
\* the pending entry of the thread key in phase error with a message and remove
\* the awaiting record; a send on a thread key whose pending entry is in phase
\* error, when nothing else rejects it, is dispatched as a new command with a
\* new id.
C8_Failure ==
  [][/\ \A s \in submits :
          SubmitRejected(s, "offline")
          => /\ pendingByThreadKey'[s.key].phase = "error"
             /\ pendingByThreadKey'[s.key].error = "offline"
             /\ awaitingByThreadKey'[s.key] = NoAwaiting
     /\ \A p \in polls :
          (/\ PollArrive(p, results[p.pending.id])
           /\ results[p.pending.id] # NoResult
           /\ ~results[p.pending.id].ok)
          => /\ pendingByThreadKey'[p.key].phase = "error"
             /\ pendingByThreadKey'[p.key].error # ""
             /\ awaitingByThreadKey'[p.key] = NoAwaiting
     /\ \A text \in CmdTexts :
          (/\ handleSend(text)
           /\ canSend
           /\ activePending.phase = "error"
           /\ Trim(text) # ""
           /\ ~sendDebounced(lastSendRef, activeWorkspaceId, activeThreadId, Trim(text)))
          => /\ pendingByThreadKey'[activeThreadKey].id = nextCommandId
             /\ pendingByThreadKey'[activeThreadKey].id # activePending.id
             /\ pendingByThreadKey'[activeThreadKey].phase = "submitting"
             /\ awaitingByThreadKey'[activeThreadKey].commandId = nextCommandId
             /\ \E c \in outbox' \ outbox : c.commandId = nextCommandId]_vars

\* command 2 is live on a thread key where no snapshot was accepted, no reply
\* timed out and no result was ok: command 1 failed before it was sent
C8_Witness ==
  \E k \in ThreadKeys :
    /\ pendingByThreadKey[k].id = 2
    /\ isLive(pendingByThreadKey[k])
    /\ awaitingByThreadKey[k].commandId = 2
    /\ lastThreadUpdatedAtByKey[k] = 0
    /\ "reply.timeout" \notin telemetryEvents
    /\ \A c \in 1..MaxCommands : results[c] = NoResult \/ ~results[c].ok

-----------------------------------------------------------------------------
(* SpecLive: commands under fairness.  The timers keep firing: time passes,   *)
(* the 10 s timeout interval fires whenever it exists, and the effects of a    *)
(* render run.  The clock of a run has a last reading; a command is sent while *)
(* a reading 15 minutes later exists, so that its age can be seen to reach the *)
(* ceiling.                                                                    *)

LiveInstants == CmdInstants
LivePayloads == {[items |-> <<Reply, Reply2>>, thread |-> <<>>]}
LiveResults == CmdResults
LiveTexts == {"hi", "yo"}

SendInTime(text) ==
  /\ \E t \in LiveInstants : t >= now + ReplyTimeoutMs
  /\ handleSend(text)

InitLive == InitFrom(SeedCache, threadKey("w1", "tA"), FALSE)

NextLive ==
  \/ RunEffects
  \/ TickStart
  \/ \E t \in ticks : TickRunner(t, "r1", now)
  \/ \E t \in ticks : TickGlobal(t, NoRecord)
  \/ \E t \in ticks : \E record \in ThreadRecords(threadKey(t.aWs, t.aTh), LivePayloads) :
        TickThreadArrive(t, record)
  \/ \E text \in LiveTexts : SendInTime(text)
  \/ \E s \in submits : SubmitResolved(s)
  \/ \E s \in submits : SubmitRejected(s, "offline")
  \/ PollStart
  \/ \E p \in polls : PollArrive(p, results[p.pending.id])
  \/ ReplyTimeoutCheck
  \/ \E c \in 1..MaxCommands, result \in LiveResults : WriterResult(c, result)
  \/ Advance(LiveInstants)

SpecLive ==
  /\ InitLive
  /\ [][NextLive]_vars
  /\ WF_vars(RunEffects)
  /\ SF_vars(ReplyTimeoutCheck)
  /\ SF_vars(Advance(LiveInstants))

liveCommand(k, c) == pendingByThreadKey[k].id = c /\ isLive(pendingByThreadKey[k])

\* C7: every command that is pending in a live phase is eventually removed or
\* moved to the error phase, and its awaiting record is eventually removed,
\* whatever the transport, the writer and the snapshots do.
C7_NoStuckCommand ==
  \A k \in ThreadKeys : \A c \in 1..MaxCommands :
    /\ liveCommand(k, c) ~> ~liveCommand(k, c)
    /\ (awaitingByThreadKey[k].commandId = c) ~> (awaitingByThreadKey[k].commandId # c)

\* a command that got no result and no snapshot was removed by the timeout check
C7_Witness ==
  /\ "reply.timeout" \in telemetryEvents
  /\ outbox # {}
  /\ \A c \in 1..MaxCommands : results[c] = NoResult
  /\ \A k \in ThreadKeys : pendingByThreadKey[k] = NoPending /\ awaitingByThreadKey[k] = NoAwaiting

-----------------------------------------------------------------------------
(* Properties of the scheduler, stated as the specification states them *)

\* C1, at the global scope: the global snapshot held in memory changes only to
\* an envelope with a strictly greater timestamp.
C1_GlobalStrictlyNewer ==
  [][global' # global => global'.ts > global.ts]_vars

\* C9, at the workspace scopes: once no workspace fetch is in flight, the
\* snapshot in memory and the snapshot in the cache are the envelope with the
\* greatest timestamp the guard has let through for that workspace.
C9_OverlapKeepsNewest ==
  ((\A t \in ticks : t.pc # "ws") /\ (\A f \in selFetches : f.scope # "ws"))
  => \A w \in Workspaces :
       /\ workspaceSnaps[w].ts = lastWorkspaceUpdatedAt[w]
       /\ cache.workspaces[w].ts = lastWorkspaceUpdatedAt[w]

\* C10: while a thread is active and its snapshot is on display, the answer to
\* a fetch of another thread (of a tick started before the switch, or of that
\* thread's select-triggered fetch) leaves the snapshot on display and the
\* rendered items as they are.
C10_StaleAnswerHarmless ==
  [][(/\ activeThreadId # NoId
      /\ threadSnap.ts # 0
      /\ threadSnap.threadId = activeThreadId
      /\ \/ \E t \in ticks :
              /\ threadKey(t.aWs, t.aTh) # activeThreadKey
              /\ \E record \in ThreadRecords(threadKey(t.aWs, t.aTh), ThPayloads) :
                   TickThreadArrive(t, record)
         \/ \E f \in selFetches :
              /\ threadKey(f.workspaceId, f.threadId) # activeThreadKey
              /\ \E record \in ThreadRecords(threadKey(f.workspaceId, f.threadId), ThPayloads) :
                   SelectThreadArrive(f, record))
       => (threadSnap' = threadSnap /\ activeItems' = activeItems)]_vars

-----------------------------------------------------------------------------
(* SpecSwitch: switching between the two threads of w1 while ticks are in     *)
(* flight.  The tick effect (lines 369-623) lists the selection among its     *)
(* dependencies: a switch runs its cleanup and sets it up again, which calls  *)
(* tick() at once (line 617), while a tick of the old closure suspended at an *)
(* await runs on (`stopped` is read at line 415 only).                         *)

MaxOverlap == 2       \* ticks in flight at once around a switch

\* lines 617-623: tick() of the effect set up again, beside a tick of an older
\* closure
TickRestart ==
  /\ ~EffectPending
  /\ ticks # {}
  /\ Cardinality(ticks) < MaxOverlap
  /\ \E t \in ticks : t.aWs # activeWorkspaceId \/ t.aTh # activeThreadId
                      \/ t.loadMode # threadLoadMode \/ t.fast # shouldFastPollActiveThread
  /\ LET n == CHOOSE i \in 1..MaxOverlap : \A t \in ticks : t.n # i
     IN  ticks' = ticks \cup
           {[n |-> n, aWs |-> activeWorkspaceId, aTh |-> activeThreadId,
             loadMode |-> threadLoadMode, fast |-> shouldFastPollActiveThread,
             pc |-> "runner", ids |-> <<>>, left |-> {},
             got |-> [w \in Workspaces |-> NoWorkspaceSnap], tnow |-> 0, bgKey |-> <<>>]}
  /\ UNCHANGED <<now, telemetryEvents, runnerId, runnerOnline, global, workspaceSnaps, threadSnap,
                 activeWorkspaceId, activeThreadId, threadLoadMode, pendingByThreadKey,
                 awaitingByThreadKey, awaitingOrder, localItemsByThreadKey,
                 lastThreadUpdatedAtByKey, lastWorkspaceUpdatedAt, lastWorkspaceFetchAt,
                 lastThreadFetchAt, lastBackgroundThreadFetchAtByKey, lastSendRef, cache,
                 selFetches, submits, polls, outbox, results, nextCommandId>>
  /\ UNCHANGED <<telemetry, unhandledRejections, cloudKitPollIntervalMs>>

\* the store holds an envelope of every thread: each thread fetch is answered
SwRecords(key) == {ThreadSnapshot(ts, key, <<Reply>>, <<>>) : ts \in Timestamps}

InitSwitch ==
  /\ now = Epoch
  /\ \E cached \in {CmdSeed, SeedCache} : InitFrom(cached, threadKey("w1", "tA"), FALSE)

NextSwitch ==
  \/ RunEffects
  \/ SyncBadgeTimer
  \/ TickStart
  \/ TickRestart
  \/ \E t \in ticks : TickRunner(t, "r1", now)
  \/ \E t \in ticks : TickGlobal(t, NoRecord)
  \/ \E t \in ticks : \E record \in SwRecords(threadKey(t.aWs, t.aTh)) :
        TickThreadArrive(t, record)
  \/ \E k \in SidebarKeys : handleSelectThread(k[1], k[2])
  \/ \E f \in selFetches : \E record \in SwRecords(threadKey(f.workspaceId, f.threadId)) :
        SelectThreadArrive(f, record)
  \/ Advance(Instants)

SpecSwitch == InitSwitch /\ [][NextSwitch]_vars

\* C11: a tick started for the active thread that comes to its thread section
\* (lines 517-527) while no answer for that thread has been accepted and no
\* tick is fetching it - so no tick has fetched the thread since it was
\* selected - fetches the thread's scope, whatever ticks of the thread shown
\* before are in flight.
C11_FirstTickFetches ==
  [][\A t \in ticks :
       (/\ activeThreadKey \in ThreadKeys
        /\ threadKey(t.aWs, t.aTh) = activeThreadKey
        /\ lastThreadUpdatedAtByKey[activeThreadKey] = 0
        /\ \A u \in ticks : ~(u.pc = "thread" /\ threadKey(u.aWs, u.aTh) = activeThreadKey)
        /\ TickGlobal(t, NoRecord))
       => \E u \in ticks' : u.n = t.n /\ u.pc = "thread"]_vars

-----------------------------------------------------------------------------
(* SpecBg: one command sent on thread tA, and the user navigating away from   *)
(* it - to thread tB or to the home screen - while the scheduler polls, the   *)
(* store answers and time passes.                                              *)

BgPayloads ==
  {[items |-> <<Reply>>, thread |-> <<>>],
   [items |-> <<Reply, Hi, Reply2>>, thread |-> <<>>]}
\* the store holds the newest envelope of each thread
BgRecords(key) == {ThreadSnapshot(MaxTs, key, p.items, p.thread) : p \in BgPayloads}

InitBg == InitFrom(SeedCache, threadKey("w1", "tA"), FALSE)

NextBg ==
  \/ RunEffects
  \/ TickStart
  \/ \E t \in ticks : TickRunner(t, "r1", now)
  \/ \E t \in ticks : TickGlobal(t, NoRecord)
  \/ \E t \in {u \in ticks : u.pc = "thread"} : \E record \in BgRecords(threadKey(t.aWs, t.aTh)) :
        TickThreadArrive(t, record)
  \/ \E t \in {u \in ticks : u.pc = "bg"} : \E record \in BgRecords(t.bgKey) \cup {NoRecord} :
        TickBgArrive(t, record)
  \/ SelectHome
  \/ handleSelectThread("w1", "tB")
  \/ \E f \in selFetches : \E record \in BgRecords(threadKey(f.workspaceId, f.threadId)) :
        SelectThreadArrive(f, record)
  \/ nextCommandId = 1 /\ handleSend("hi")
  \/ \E s \in submits : SubmitResolved(s)
  \/ Advance(Instants)

SpecBg == InitBg /\ [][NextBg]_vars

\* C12: a tick that comes to its thread section (lines 517-611) while a thread
\* other than the one it was started for is awaiting a reply and has not been
\* fetched in the background for a poll interval goes on to fetch a thread
\* scope: its own thread first (the background thread follows that answer), or
\* the awaiting thread - also when the tick was started with no thread active.
C12_BackgroundFetched ==
  [][\A t \in ticks :
       (/\ t.aWs = activeWorkspaceId /\ t.aTh = activeThreadId
        /\ \E k \in SeqToSet(awaitingOrder) :
             /\ k # activeThreadKey
             /\ now - lastBackgroundThreadFetchAtByKey[k] >= pollIntervalMs
        /\ TickGlobal(t, NoRecord))
       => \E u \in ticks' : u.n = t.n /\ u.pc \in {"thread", "bg"}]_vars

-----------------------------------------------------------------------------
(* SpecOverlay: the life of the overlay.  One command is sent, on thread tA  *)
(* or on tB after the user has moved there; it is refused, fails, is answered *)
(* with or without inline text, or is left unanswered until the timeout,      *)
(* while the writer is seen fresh or stale by the scheduler and snapshots of  *)
(* both threads come in.                                                       *)

OvResults ==
  {[ok |-> TRUE, payloadJson |-> "{assistantText:hello}"], [ok |-> FALSE, payloadJson |-> ""]}

\* the store holds the newest envelope of each thread; that of tA with or
\* without the user's message
OvRecords(key) ==
  IF key = threadKey("w1", "tA") THEN BgRecords(key)
  ELSE {ThreadSnapshot(MaxTs, key, <<Reply>>, <<>>)}

InitOverlay == InitFrom(SeedCache, threadKey("w1", "tA"), FALSE)

NextOverlay ==
  \/ RunEffects
  \/ TickStart
  \/ \E t \in ticks, updatedAtMs \in {now, now - RunnerOnlineWindowMs} :
        TickRunner(t, "r1", updatedAtMs)
  \/ \E t \in ticks : TickGlobal(t, NoRecord)
  \/ \E t \in {u \in ticks : u.pc = "thread"} : \E record \in OvRecords(threadKey(t.aWs, t.aTh)) :
        TickThreadArrive(t, record)
  \/ \E t \in {u \in ticks : u.pc = "bg"} :
        TickBgArrive(t, ThreadSnapshot(MaxTs, t.bgKey, <<Reply, Hi, Reply2>>, <<>>))
  \/ handleSelectThread("w1", "tB")
  \/ \E f \in {g \in selFetches : g.scope = "th"} :
        \E record \in OvRecords(threadKey(f.workspaceId, f.threadId)) : SelectThreadArrive(f, record)
  \/ nextCommandId = 1 /\ handleSend("hi")
  \/ \E s \in submits : SubmitResolved(s)
  \/ \E s \in submits : SubmitRejected(s, "offline")
  \/ PollStart
  \/ \E p \in polls : PollArrive(p, results[p.pending.id])
  \/ \E result \in OvResults : WriterResult(1, result)
  \/ ReplyTimeoutCheck
  \/ Advance(CmdInstants)

SpecOverlay == InitOverlay /\ [][NextOverlay]_vars

\* whether record is accepted for key in this state and holds a message with
\* the signature of item
confirmsItem(key, record, item) ==
  /\ Parsed(record)
  /\ isNewer(record.ts, lastThreadUpdatedAtByKey[key])
  /\ \E j \in 1..Len(record.items) :
       isMessage(record.items[j]) /\ Signature(record.items[j]) = Signature(item)

\* C13: an item leaves the overlay of a thread key only in a step that accepts
\* a snapshot of that key - fetched by a tick for the key as its own thread or
\* as a background thread - holding a message with the item's signature.  No
\* step of a send, a submit outcome, a result poll, a timeout check, a switch
\* of thread, a runner answer or the clock takes an item out.
C13_OverlayKept ==
  [][\A k \in ThreadKeys : \A item \in SeqToSet(localItemsByThreadKey[k]) :
       item \notin SeqToSet(localItemsByThreadKey'[k])
       => \E t \in ticks : \E record \in BgRecords(k) :
            /\ confirmsItem(k, record, item)
            /\ \/ t.pc = "thread" /\ threadKey(t.aWs, t.aTh) = k /\ TickThreadArrive(t, record)
               \/ t.pc = "bg" /\ t.bgKey = k /\ TickBgArrive(t, record)]_vars

\* the command on tA timed out after the user left for tB, a snapshot of tA
\* without the user's message was accepted, and the message is in the overlay
C13_Witness ==
  /\ "reply.timeout" \in telemetryEvents
  /\ activeThreadId = "tB"
  /\ lastThreadUpdatedAtByKey[threadKey("w1", "tA")] = MaxTs
  /\ \E item \in SeqToSet(localItemsByThreadKey[threadKey("w1", "tA")]) :
       item.role = "user" /\ item.text = "hi"

-----------------------------------------------------------------------------
(* SpecCompact: the scheduler polling thread tA of w1 while the store holds   *)
(* long conversations: up to 200 items, one of them a message of up to 5000   *)
(* characters, the others short messages and tool items.                       *)

RECURSIVE Repeat(_, _)
Repeat(s, n) ==
  IF n = 0 THEN ""
  ELSE IF n % 2 = 1 THEN s \o Repeat(s, n - 1)
  ELSE LET half == Repeat(s, n \div 2) IN half \o half

\* a text of n characters
TextOf(n) == SubSeq(Repeat("abcdefg", n \div 7 + 1), 1, n)

CompactLengths == {1, 79, 80, 81, 200}
CompactTextLengths == {1999, 2000, 2001, 5000}

\* n items: a long message of textLen characters at place longAt, a tool item
\* with a long text before it, short messages and tool items elsewhere
LongItems(n, longAt, textLen) ==
  [i \in 1..n |->
     IF i = longAt THEN Message("m" \o ToString(i), "assistant", TextOf(textLen))
     ELSE IF i = longAt - 1 THEN [ToolItem("t" \o ToString(i)) EXCEPT !.text = TextOf(textLen)]
     ELSE IF i % 2 = 0 THEN ToolItem("t" \o ToString(i))
     ELSE Message("m" \o ToString(i), "user", "hi")]

CompactRecords(key) ==
  {ThreadSnapshot(ts, key, LongItems(n, longAt, textLen), <<RawReply>>) :
     ts \in Timestamps, n \in CompactLengths, longAt \in {2}, textLen \in CompactTextLengths}
  \cup
  {ThreadSnapshot(ts, key, LongItems(n, n, textLen), <<>>) :
     ts \in Timestamps, n \in CompactLengths, textLen \in CompactTextLengths}

InitCompact == InitFrom(CmdSeed, threadKey("w1", "tA"), FALSE)

NextCompact ==
  \/ TickStart
  \/ \E t \in ticks : TickRunner(t, "r1", now)
  \/ \E t \in ticks : TickGlobal(t, NoRecord)
  \/ \E t \in {u \in ticks : u.pc = "thread"} :
       \E record \in CompactRecords(threadKey(t.aWs, t.aTh)) : TickThreadArrive(t, record)
  \/ Advance(Instants)

SpecCompact == InitCompact /\ [][NextCompact]_vars

\* what the claim says of one item of the written snapshot and its cached copy
cutAsStated(item, copy) ==
  IF item.kind = "message" /\ Len(item.text) > MAX_TEXT_CHARS
  THEN /\ copy = [item EXCEPT !.text = copy.text]
       /\ Len(copy.text) = MAX_TEXT_CHARS + 1
       /\ SubSeq(copy.text, 1, MAX_TEXT_CHARS) = SubSeq(item.text, 1, MAX_TEXT_CHARS)
       /\ SubSeq(copy.text, MAX_TEXT_CHARS + 1, MAX_TEXT_CHARS + 1) = Ellipsis
  ELSE copy = item

-----------------------------------------------------------------------------
(* Properties of the durable cache, stated as the specification states them *)

\* C15: no thread envelope in the cache carries a raw thread record.
C15_NoRawThread ==
  \A k \in DOMAIN cache.threads : cache.threads[k].thread = <<>>

\* C14: when a tick accepts a thread snapshot with rendered items (it is put
\* into threadSnap, line 544, and written, line 545), its cached copy holds the
\* last 80 items, in their order; a message text longer than 2000 characters
\* is its first 2000 characters and an ellipsis; shorter texts and the items
\* of other kinds are as they were written.
C14_Compaction ==
  [][LET key == threadKey("w1", "tA")
     IN  (/\ \E t \in ticks : t.pc = "thread" /\ t \notin ticks'
          /\ lastThreadUpdatedAtByKey'[key] > lastThreadUpdatedAtByKey[key])
         => LET record == threadSnap'
                copy == cache'.threads[key]
                n == Len(record.items)
                kept == IF n > MAX_THREAD_ITEMS THEN MAX_THREAD_ITEMS ELSE n
            IN  /\ n > 0
                /\ Len(copy.items) = kept
                /\ \A j \in 1..kept : cutAsStated(record.items[n - kept + j], copy.items[j])]_vars

\* the cache holds 80 items, the last a message of 2001 characters, of a
\* snapshot that is in memory with 200 items, the last a message of 5000
C14_Witness ==
  /\ threadSnap.ts # 0
  /\ Len(threadSnap.items) = 200
  /\ Len(threadSnap.items[200].text) = 5000
  /\ threadKey("w1", "tA") \in DOMAIN cache.threads
  /\ Len(cache.threads[threadKey("w1", "tA")].items) = MAX_THREAD_ITEMS
  /\ Len(cache.threads[threadKey("w1", "tA")].items[MAX_THREAD_ITEMS].text) = MAX_TEXT_CHARS + 1

-----------------------------------------------------------------------------
(* SpecStale: the client is opened more than MAX_CACHE_AGE_MS after the last  *)
(* write of the session before, StaleBlob in the storage.  The scheduler and  *)
(* a selection fetch what the writer has now, which differs from every entry  *)
(* of StaleBlob.                                                               *)

StaleWrittenAt == {Epoch, Epoch - ReplyTimeoutMs}
StaleStart == Epoch + MAX_CACHE_AGE_MS + 1
StaleInstants == {StaleStart + i * 10000 : i \in 1..(MaxInstants + 1)}

StaleBlob(updatedAtMs) ==
  [v |-> 1, updatedAtMs |-> updatedAtMs, backend |-> "ok", runner |-> "r0",
   global |-> GlobalSnapshot(1, <<"w1">>),
   workspaces |-> [w \in Workspaces |->
                     IF w = "w1" THEN WorkspaceSnapshot(1, "w1", {"tA"})
                     ELSE NoWorkspaceSnap],
   threads |-> [k \in {threadKey("w1", "tA")} |-> ThreadSnapshot(1, k, <<Hi>>, <<>>)],
   threadOrder |-> <<threadKey("w1", "tA")>>]

StaleRecords(key) == {ThreadSnapshot(ts, key, <<Reply>>, <<>>) : ts \in Timestamps}

InitStale ==
  /\ now = StaleStart
  /\ \E at \in StaleWrittenAt, storedKey \in {<<>>, threadKey("w1", "tA")} :
        Mounted(StaleBlob(at), storedKey, FALSE)

NextStale ==
  \/ RunEffects
  \/ TickStart
  \/ \E t \in ticks : TickRunner(t, "r1", now)
  \/ \E t \in ticks : TickGlobal(t, GlobalSnapshot(2, <<"w1", "w2">>))
  \/ \E t \in ticks, w \in Workspaces : TickWsArrive(t, w, WorkspaceSnapshot(2, w, {"tA", "tB"}))
  \/ \E t \in {u \in ticks : u.pc = "thread"} :
        \E record \in StaleRecords(threadKey(t.aWs, t.aTh)) : TickThreadArrive(t, record)
  \/ handleSelectThread("w1", "tA")
  \/ \E f \in selFetches :
        \E record \in StaleRecords(threadKey(f.workspaceId, f.threadId)) :
           SelectThreadArrive(f, record)
  \/ Advance(StaleInstants)

SpecStale == InitStale /\ [][NextStale]_vars

\* C16: a blob whose updatedAtMs is more than MAX_CACHE_AGE_MS before now loads
\* as null, and no runner, global, workspace or thread entry of the stale blob
\* of the start is in what a load returns, whatever was written since.
C16_StaleRejected ==
  /\ (cache.v = 1 /\ now - cache.updatedAtMs > MAX_CACHE_AGE_MS)
        => loadCloudCache(cache).v = 0
  /\ LET c == loadCloudCache(cache)
         stale == StaleBlob(Epoch)
     IN  /\ c.runner # stale.runner
         /\ c.global # stale.global
         /\ c.workspaces["w1"] # stale.workspaces["w1"]
         /\ \A k \in DOMAIN c.threads \cap DOMAIN stale.threads :
               c.threads[k] # stale.threads[k]

\* after the stale start the scheduler has written runner, global, workspace
\* and thread tA anew, and a load returns them
C16_Witness ==
  LET c == loadCloudCache(cache)
  IN  /\ c.v = 1
      /\ c.runner = "r1"
      /\ c.global.ts = 2
      /\ c.workspaces["w1"].ts = 2
      /\ threadKey("w1", "tA") \in DOMAIN c.threads
      /\ c.threads[threadKey("w1", "tA")].items = <<Reply>>

-----------------------------------------------------------------------------
(* SpecMru: thread snapshots of up to ten threads of w1 are written to an     *)
(* empty cache.  A thread never written before is the next of MruIds; the     *)
(* threads of MruRewritten can be written again at any time.  The snapshot    *)
(* written is kept in threadSnap, as the handlers keep it (lines 544-545,     *)
(* 888-889), and its items name, in order, the threads written so far: one    *)
(* tool item per write, its id the thread id.                                  *)

MruWrites == 10
MruIds == <<"t1", "t2", "t3", "t4", "t5", "t6", "t7", "t8", "t9", "t10">>
MruRewritten == {"t1", "t2"}

writtenIds == {threadSnap.items[i].id : i \in 1..Len(threadSnap.items)}

WriteThread(threadId) ==
  /\ Len(threadSnap.items) < MruWrites
  /\ \/ threadId \in MruRewritten \cap writtenIds
     \/ /\ Cardinality(writtenIds) < Len(MruIds)
        /\ threadId = MruIds[Cardinality(writtenIds) + 1]
  /\ LET next == ThreadSnapshot(1, threadKey("w1", threadId),
                                threadSnap.items \o <<ToolItem(threadId)>>, <<>>)
     IN  /\ threadSnap' = next
         /\ cache' = writeCloudCacheThread(cache, next)
  /\ UNCHANGED <<now, telemetryEvents, runnerId, runnerOnline, global, workspaceSnaps,
                 activeWorkspaceId, activeThreadId, threadLoadMode, pendingByThreadKey,
                 awaitingByThreadKey, awaitingOrder, localItemsByThreadKey,
                 lastThreadUpdatedAtByKey, lastWorkspaceUpdatedAt, lastWorkspaceFetchAt,
                 lastThreadFetchAt, lastBackgroundThreadFetchAtByKey, lastSendRef,
                 ticks, selFetches, submits, polls, outbox, results, nextCommandId>>
  /\ UNCHANGED <<telemetry, unhandledRejections, cloudKitPollIntervalMs>>

InitMru == InitFrom(EmptyCache, <<>>, FALSE)

NextMru == \E i \in 1..Len(MruIds) : WriteThread(MruIds[i])

SpecMru == InitMru /\ [][NextMru]_vars

\* the place of the last write of a thread among the writes so far
lastWriteOf(threadId) ==
  CHOOSE i \in 1..Len(threadSnap.items) :
    /\ threadSnap.items[i].id = threadId
    /\ \A j \in (i + 1)..Len(threadSnap.items) : threadSnap.items[j].id # threadId

\* the threads with fewer than MAX_THREAD_ENTRIES other threads written after
\* their last write
mostRecentlyWritten ==
  {id \in writtenIds :
     Cardinality({o \in writtenIds : lastWriteOf(o) > lastWriteOf(id)}) < MAX_THREAD_ENTRIES}

\* C17: after any thread writes to an empty cache the cache holds at most 8
\* thread envelopes, those of the 8 most recently written keys (so a 9th key
\* takes the place of the one whose last write is oldest), and the order list
\* holds the keys of the thread map, each once.
C17_MostRecentEight ==
  /\ Len(cache.threadOrder) <= MAX_THREAD_ENTRIES
  /\ DOMAIN cache.threads = {threadKey("w1", id) : id \in mostRecentlyWritten}
  /\ SeqToSet(cache.threadOrder) = DOMAIN cache.threads
  /\ Cardinality(SeqToSet(cache.threadOrder)) = Len(cache.threadOrder)

\* nine threads in ten writes, one of them a second write of t1 or t2: t1 was
\* written again before the ninth thread came, which took the place of t2
C17_Witness ==
  /\ Len(threadSnap.items) = MruWrites
  /\ writtenIds = SeqToSet(MruIds) \ {"t10"}
  /\ threadKey("w1", "t1") \in DOMAIN cache.threads
  /\ threadKey("w1", "t2") \notin DOMAIN cache.threads
  /\ Len(cache.threadOrder) = MAX_THREAD_ENTRIES

-----------------------------------------------------------------------------
(* SpecFail: the session of SpecBg on thread tA with a storage that works, or  *)
(* throws on every getItem, or throws on every setItem.  The writer has a      *)
(* newer global and newer workspace snapshots; the user sends one message.     *)

Backends == {"ok", "readThrows", "writeThrows"}
FailGlobal == GlobalSnapshot(MaxTs, <<"w1">>)
FailWorkspace(w) == WorkspaceSnapshot(MaxTs, w, {"tA", "tB"})

InitFail ==
  /\ now = Epoch
  /\ \E b \in Backends :
        Mounted([SeedCache EXCEPT !.backend = b], threadKey("w1", "tA"), FALSE)

NextFail ==
  \/ RunEffects
  \/ TickStart
  \/ \E t \in ticks : TickRunner(t, "r1", now)
  \/ \E t \in ticks : TickGlobal(t, FailGlobal)
  \/ \E t \in ticks, w \in Workspaces : TickWsArrive(t, w, FailWorkspace(w))
  \/ \E t \in {u \in ticks : u.pc = "thread"} : \E record \in BgRecords(threadKey(t.aWs, t.aTh)) :
        TickThreadArrive(t, record)
  \/ handleSelectThread("w1", "tA")
  \/ \E f \in selFetches : \E record \in BgRecords(threadKey(f.workspaceId, f.threadId)) :
        SelectThreadArrive(f, record)
  \/ nextCommandId = 1 /\ handleSend("hi")
  \/ \E s \in submits : SubmitResolved(s)
  \/ Advance(Instants)

SpecFail == InitFail /\ [][NextFail]_vars

\* The handler that writes: whatever the storage does, it leaves in memory the
\* runner, the global, the workspace and the thread snapshot it accepted, their
\* last-accepted timestamps, the overlay reconciled against the accepted items
\* and the awaiting and pending entries of a resolved reply deleted.
WritesBestEffort ==
  /\ [][\A t \in ticks :
          /\ TickRunner(t, "r1", now)
                => /\ runnerId' = "r1"
                   /\ \E u \in ticks' : u.n = t.n /\ u.pc = "global"
          /\ TickGlobal(t, FailGlobal) => global' = FailGlobal
          /\ \A w \in Workspaces :
                (TickWsArrive(t, w, FailWorkspace(w))
                   /\ isNewer(MaxTs, lastWorkspaceUpdatedAt[w]))
                => /\ lastWorkspaceUpdatedAt'[w] = MaxTs
                   /\ t.left = {w} => workspaceSnaps'[w] = FailWorkspace(w)
          /\ \A record \in BgRecords(threadKey(t.aWs, t.aTh)) :
                (TickThreadArrive(t, record)
                   /\ isNewer(record.ts, lastThreadUpdatedAtByKey[threadKey(t.aWs, t.aTh)]))
                => LET key == threadKey(t.aWs, t.aTh)
                   IN  /\ threadSnap' = record
                       /\ lastThreadUpdatedAtByKey'[key] = record.ts
                       /\ localItemsByThreadKey' =
                            reconcileLocalItems(localItemsByThreadKey, key, record.items)
                       /\ awaitingResolved(awaitingByThreadKey, key, record.items)
                            => /\ awaitingByThreadKey'[key] = NoAwaiting
                               /\ pendingByThreadKey'[key] = NoPending
                               /\ ~Contains(awaitingOrder', key)]_vars

\* setItem throws, so the storage still holds the blob of the session before,
\* while memory holds the newer global, workspace and thread snapshots and the
\* command the user sent is resolved by the reply in the thread
WritesFailed ==
  /\ cache.backend = "writeThrows"
  /\ cache.global.ts = 1
  /\ cache.threads[threadKey("w1", "tA")].ts = 1
  /\ global = FailGlobal
  /\ workspaceSnaps["w1"] = FailWorkspace("w1")
  /\ threadSnap = ThreadSnapshot(MaxTs, threadKey("w1", "tA"), <<Reply, Hi, Reply2>>, <<>>)
  /\ outbox # {}
  /\ awaitingByThreadKey[threadKey("w1", "tA")] = NoAwaiting
  /\ localItemsByThreadKey[threadKey("w1", "tA")] = <<>>

\* the thread snapshot in memory is the one last accepted for its thread, or a
\* newer one
MemoryAsAccepted ==
  threadSnap.ts # 0
    => threadSnap.ts >=
         lastThreadUpdatedAtByKey[threadKey(threadSnap.workspaceId, threadSnap.threadId)]

\* C18: with a storage that throws on read or on write, memory is what it is
\* when the writes succeed: the thread snapshot in memory is the one last
\* accepted, as it is in every state of a session whose writes succeed.
C18_SameAsIfWritten == cache.backend # "ok" => MemoryAsAccepted

\* the same with a storage that works
StoredMemoryAsAccepted == cache.backend = "ok" => MemoryAsAccepted

-----------------------------------------------------------------------------
(* SpecThrough: every fetch that accepts an envelope - the tick on the global, *)
(* workspace, thread and background thread scopes, the select-triggered       *)
(* workspace and thread fetches - with answers that pass the timestamp guard  *)
(* and answers that do not.  The user sends one message in thread tA and goes *)
(* to thread tB, so that tA is fetched in the background.                      *)

ThroughGlobals == {GlobalSnapshot(MaxTs, <<"w1">>)}
ThroughWorkspaces(w) == {WorkspaceSnapshot(ts, w, {"tA", "tB"}) : ts \in Timestamps}
ThroughThreads(key) == {ThreadSnapshot(ts, key, <<Reply, Hi, Reply2>>, <<>>) : ts \in Timestamps}

InitThrough == InitFrom(SeedCache, threadKey("w1", "tA"), FALSE)

NextThrough ==
  \/ RunEffects
  \/ TickStart
  \/ \E t \in ticks : TickRunner(t, "r1", now)
  \/ \E t \in ticks, record \in ThroughGlobals : TickGlobal(t, record)
  \/ \E t \in ticks, w \in Workspaces : \E record \in ThroughWorkspaces(w) :
        TickWsArrive(t, w, record)
  \/ \E t \in {u \in ticks : u.pc = "thread"} :
        \E record \in ThroughThreads(threadKey(t.aWs, t.aTh)) : TickThreadArrive(t, record)
  \/ \E t \in {u \in ticks : u.pc = "bg"} : \E record \in ThroughThreads(t.bgKey) :
        TickBgArrive(t, record)
  \/ handleSelectWorkspace("w1")
  \/ \E f \in {g \in selFetches : g.scope = "ws"} :
        \E record \in ThroughWorkspaces(f.workspaceId) : SelectWorkspaceArrive(f, record)
  \/ handleSelectThread("w1", "tB")
  \/ \E f \in {g \in selFetches : g.scope = "th"} :
        \E record \in ThroughThreads(threadKey(f.workspaceId, f.threadId)) :
           SelectThreadArrive(f, record)
  \/ nextCommandId = 1 /\ handleSend("hi")
  \/ Advance(Instants)

SpecThrough == InitThrough /\ [][NextThrough]_vars

\* C19: a fetched envelope that is accepted into memory - by the tick on the
\* global, workspace, thread or background thread scope, or by a
\* select-triggered fetch - is in the cache after the same step, compacted if
\* it is a thread envelope; an envelope the timestamp guard rejects leaves the
\* cache entry of its scope as it was.
C19_WriteThrough ==
  [][/\ \A w \in Workspaces :
          workspaceSnaps'[w] # workspaceSnaps[w] => cache'.workspaces[w] = workspaceSnaps'[w]
     /\ \A t \in ticks :
          /\ \A record \in ThroughGlobals :
                TickGlobal(t, record) => global' = record /\ cache'.global = record
          /\ \A w \in Workspaces : \A record \in ThroughWorkspaces(w) :
                (TickWsArrive(t, w, record) /\ record.ts <= lastWorkspaceUpdatedAt[w])
                => /\ workspaceSnaps'[w] = workspaceSnaps[w]
                   /\ cache'.workspaces[w] = cache.workspaces[w]
     /\ \A t \in {u \in ticks : u.pc = "thread"} :
          \A record \in ThroughThreads(threadKey(t.aWs, t.aTh)) :
             TickThreadArrive(t, record)
             => LET key == threadKey(t.aWs, t.aTh)
                IN  IF record.ts > lastThreadUpdatedAtByKey[key]
                    THEN /\ threadSnap' = record
                         /\ lastThreadUpdatedAtByKey'[key] = record.ts
                         /\ key \in DOMAIN cache'.threads
                         /\ cache'.threads[key] = compactThreadSnapshot(record)
                    ELSE /\ threadSnap' = threadSnap
                         /\ cache' = cache
     /\ \A t \in {u \in ticks : u.pc = "bg"} :
          \A record \in ThroughThreads(t.bgKey) :
             TickBgArrive(t, record)
             => IF record.ts > lastThreadUpdatedAtByKey[t.bgKey]
                THEN /\ lastThreadUpdatedAtByKey'[t.bgKey] = record.ts
                     /\ t.bgKey \in DOMAIN cache'.threads
                     /\ cache'.threads[t.bgKey] = compactThreadSnapshot(record)
                ELSE cache' = cache
     /\ \A f \in {g \in selFetches : g.scope = "ws"} :
          \A record \in ThroughWorkspaces(f.workspaceId) :
             SelectWorkspaceArrive(f, record)
             => IF record.ts > lastWorkspaceUpdatedAt[f.workspaceId]
                THEN /\ workspaceSnaps'[f.workspaceId] = record
                     /\ cache'.workspaces[f.workspaceId] = record
                ELSE /\ workspaceSnaps' = workspaceSnaps
                     /\ cache' = cache
     /\ \A f \in {g \in selFetches : g.scope = "th"} :
          \A record \in ThroughThreads(threadKey(f.workspaceId, f.threadId)) :
             SelectThreadArrive(f, record)
             => LET key == threadKey(f.workspaceId, f.threadId)
                IN  IF record.ts > lastThreadUpdatedAtByKey[key]
                    THEN /\ threadSnap' = record
                         /\ key \in DOMAIN cache'.threads
                         /\ cache'.threads[key] = compactThreadSnapshot(record)
                    ELSE /\ threadSnap' = threadSnap
                         /\ cache' = cache]_vars

\* thread tB is active with its newest snapshot in memory and in the cache;
\* the newest global and workspace snapshots are in memory and in the cache;
\* tA, fetched in the background, has its newest snapshot in the cache
C19_Witness ==
  /\ activeThreadId = "tB"
  /\ threadSnap = ThreadSnapshot(MaxTs, threadKey("w1", "tB"), <<Reply, Hi, Reply2>>, <<>>)
  /\ threadKey("w1", "tB") \in DOMAIN cache.threads
  /\ cache.threads[threadKey("w1", "tB")] = threadSnap
  /\ global.ts = MaxTs /\ cache.global = global
  /\ workspaceSnaps["w1"].ts = MaxTs /\ cache.workspaces["w1"] = workspaceSnaps["w1"]
  /\ lastBackgroundThreadFetchAtByKey[threadKey("w1", "tA")] # 0
  /\ lastThreadUpdatedAtByKey[threadKey("w1", "tA")] = MaxTs
  /\ cache.threads[threadKey("w1", "tA")].ts = MaxTs

-----------------------------------------------------------------------------
(* SpecStart: the start of the client with the blob of a session before in    *)
(* the storage, written just now or exactly MAX_CACHE_AGE_MS ago, and a       *)
(* stored selection or none.  The tick of the first render (line 617, its     *)
(* closure without a selection) is suspended at its first await; the effects  *)
(* of the render that follows the restore hydrate the thread and start the    *)
(* tick of the restored selection.  The writer is found or not; what it       *)
(* serves is what the cache holds, or newer.                                   *)

StartAt == Epoch + MAX_CACHE_AGE_MS
StartInstants == {StartAt + i * 10000 : i \in 0..MaxInstants}
StartBlob(updatedAtMs) == [SeedCache EXCEPT !.updatedAtMs = updatedAtMs]
StartGlobals == {NoRecord, SeedCache.global}

MountTick ==
  [n |-> 1, aWs |-> NoId, aTh |-> NoId, loadMode |-> "idle", fast |-> FALSE,
   pc |-> "runner", ids |-> <<>>, left |-> {},
   got |-> [w \in Workspaces |-> NoWorkspaceSnap], tnow |-> 0, bgKey |-> <<>>]

InitStart ==
  /\ now = StartAt
  /\ \E at \in {StartAt, StartAt - MAX_CACHE_AGE_MS},
        storedKey \in {<<>>, threadKey("w1", "tA"), threadKey("w1", "tB")} :
        MountedWith(StartBlob(at), storedKey, FALSE, {MountTick})

NextStart ==
  \/ RunEffects
  \/ TickStart
  \/ TickRestart
  \/ \E t \in ticks, runner \in {NoId, "throw", "r1"} : TickRunner(t, runner, now)
  \/ \E t \in ticks, record \in StartGlobals : TickGlobal(t, record)
  \/ \E t \in ticks, w \in Workspaces : \E record \in ThroughWorkspaces(w) :
        TickWsArrive(t, w, record)
  \/ \E t \in {u \in ticks : u.pc = "thread"} :
        \E record \in SwRecords(threadKey(t.aWs, t.aTh)) \cup {NoRecord, Throws} :
           TickThreadArrive(t, record)
  \/ Advance(StartInstants)

SpecStart == InitStart /\ [][NextStart]_vars

\* no fetched workspace or thread envelope has been accepted since the start
NothingAccepted ==
  /\ \A w \in Workspaces : lastWorkspaceUpdatedAt[w] = SeedCache.workspaces[w].ts
  /\ \A k \in ThreadKeys :
        lastThreadUpdatedAtByKey[k] <=
          (IF k \in DOMAIN SeedCache.threads THEN SeedCache.threads[k].ts ELSE 0)

\* C20: after a start with a blob that is not older than the maximum age, once
\* the effects of the start have run and while the fetch of the first render
\* has not answered and no fetched envelope has been accepted - whatever the
\* other fetches answered, no runner and a call that throws included - memory
\* holds the global and the workspace snapshots of the cache and, if a
\* selection was restored whose thread is in the cache, its thread snapshot.
C20_HydratedAtStartup ==
  (~EffectPending /\ MountTick \in ticks /\ NothingAccepted)
  => /\ global = SeedCache.global
     /\ workspaceSnaps = SeedCache.workspaces
     /\ (activeWorkspaceId # NoId /\ activeThreadId # NoId
           /\ activeThreadKey \in DOMAIN SeedCache.threads)
        => threadSnap = SeedCache.threads[activeThreadKey]

\* the tick of the restored selection found no runner; the fetch of the first
\* render has not answered; thread tA is in memory as the cache holds it
C20_Witness ==
  /\ ~EffectPending
  /\ MountTick \in ticks
  /\ runnerId = NoId
  /\ activeThreadId = "tA"
  /\ threadSnap.ts = 1
  /\ threadSnap = cache.threads[threadKey("w1", "tA")]
  /\ global = cache.global /\ global.ts = 1
  /\ workspaceSnaps = cache.workspaces

\* the same once the fetch of the first render has answered too
HydratedAfterFirstTick ==
  (~EffectPending /\ NothingAccepted /\ activeWorkspaceId # NoId /\ activeThreadId # NoId
     /\ activeThreadKey \in DOMAIN SeedCache.threads)
  => threadSnap = SeedCache.threads[activeThreadKey]

-----------------------------------------------------------------------------
(* SpecTelemetry: the telemetry log by itself.  One entry is pushed per        *)
(* millisecond, without a ts of its own; the first push into a log that reads  *)
(* empty is noted "first", every other one "next".  The log is cleared at any  *)
(* time.  The storage works, or throws on every getItem, or on every setItem.  *)

MaxPushes == 253

TelemetryEntry(note) == [ts |-> 0, event |-> "snapshot.fetch", note |-> note]

\* one call of pushCloudTelemetry; the next one is a millisecond later
TelemetryPush ==
  /\ now < Epoch + MaxPushes
  /\ telemetry' = pushCloudTelemetry(telemetry, TelemetryEntry(
                     IF readCloudTelemetry(telemetry) = <<>> THEN "first" ELSE "next"))
  /\ now' = now + 1
  /\ UNCHANGED <<telemetryEvents, unhandledRejections, cloudKitPollIntervalMs, runnerId, runnerOnline, global,
                 workspaceSnaps, threadSnap, activeWorkspaceId, activeThreadId,
                 threadLoadMode, pendingByThreadKey, awaitingByThreadKey, awaitingOrder,
                 localItemsByThreadKey, lastThreadUpdatedAtByKey, lastWorkspaceUpdatedAt,
                 lastWorkspaceFetchAt, lastThreadFetchAt,
                 lastBackgroundThreadFetchAtByKey, lastSendRef, cache, ticks, selFetches,
                 submits, polls, outbox, results, nextCommandId>>

\* one call of clearCloudTelemetry
TelemetryClear ==
  /\ telemetry' = clearCloudTelemetry(telemetry)
  /\ UNCHANGED <<now, telemetryEvents, unhandledRejections, cloudKitPollIntervalMs, runnerId, runnerOnline, global,
                 workspaceSnaps, threadSnap, activeWorkspaceId, activeThreadId,
                 threadLoadMode, pendingByThreadKey, awaitingByThreadKey, awaitingOrder,
                 localItemsByThreadKey, lastThreadUpdatedAtByKey, lastWorkspaceUpdatedAt,
                 lastWorkspaceFetchAt, lastThreadFetchAt,
                 lastBackgroundThreadFetchAtByKey, lastSendRef, cache, ticks, selFetches,
                 submits, polls, outbox, results, nextCommandId>>

\* the storage is one that does not work
TelemetryStorageFails(b) ==
  /\ now = Epoch
  /\ telemetry = EmptyTelemetry
  /\ b # "ok"
  /\ telemetry' = [telemetry EXCEPT !.backend = b]
  /\ UNCHANGED <<now, telemetryEvents, unhandledRejections, cloudKitPollIntervalMs, runnerId, runnerOnline, global,
                 workspaceSnaps, threadSnap, activeWorkspaceId, activeThreadId,
                 threadLoadMode, pendingByThreadKey, awaitingByThreadKey, awaitingOrder,
                 localItemsByThreadKey, lastThreadUpdatedAtByKey, lastWorkspaceUpdatedAt,
                 lastWorkspaceFetchAt, lastThreadFetchAt,
                 lastBackgroundThreadFetchAtByKey, lastSendRef, cache, ticks, selFetches,
                 submits, polls, outbox, results, nextCommandId>>

InitTelemetry == InitFrom(EmptyCache, <<>>, FALSE)

NextTelemetry ==
  \/ TelemetryPush
  \/ TelemetryClear
  \/ \E b \in Backends : TelemetryStorageFails(b)

SpecTelemetry == InitTelemetry /\ [][NextTelemetry]_vars

\* C21: with a storage that works, the log that is read holds at most
\* MAX_ENTRIES entries; they are the entries of the last milliseconds in push
\* order, so the most recent pushes; none of them is older than the last
\* clear, since a "first" entry has nothing before it; and as long as the log
\* is not full it starts with the first push since the clear, so that nothing
\* was dropped before the 251st push and only the oldest entry then.
C21_RingOfMostRecent ==
  telemetry.backend = "ok" =>
    LET log == readCloudTelemetry(telemetry)
    IN  /\ Len(log) <= MAX_ENTRIES
        /\ \A i \in 1..Len(log) : log[i].ts = now - 1 - (Len(log) - i)
        /\ \A i \in 2..Len(log) : log[i].note # "first"
        /\ (0 < Len(log) /\ Len(log) < MAX_ENTRIES) => log[1].note = "first"

\* C21 witness: the log is full and the first push since the clear is gone
C21_Witness ==
  /\ telemetry.backend = "ok"
  /\ Len(readCloudTelemetry(telemetry)) = MAX_ENTRIES
  /\ readCloudTelemetry(telemetry)[1].note = "next"
-----------------------------------------------------------------------------
(* SpecReject: transport calls that fail.  The session starts as in SpecBg;    *)
(* the user selects workspaces and threads and sends, the scheduler ticks and  *)
(* the result poll runs, and each transport call answers or is rejected.       *)

\* submitCommand, lines 377-399, called as `void submitCommand(...)` by the
\* select handlers (lines 779, 865): cloudkitSubmitCommand is awaited outside
\* any try, so its rejection rejects the promise of submitCommand, which has no
\* handler.  The call is in flight while the fetch started with it is.
SubmitCommandRejected(f) ==
  /\ ~EffectPending
  /\ f \in selFetches
  /\ unhandledRejections' = unhandledRejections \cup
        {IF f.scope = "ws" THEN "submitCommand(connectWorkspace)"
         ELSE "submitCommand(resumeThread)"}
  /\ UNCHANGED <<now, telemetryEvents, telemetry, cloudKitPollIntervalMs, runnerId, runnerOnline, global,
                 workspaceSnaps, threadSnap, activeWorkspaceId, activeThreadId,
                 threadLoadMode, pendingByThreadKey, awaitingByThreadKey, awaitingOrder,
                 localItemsByThreadKey, lastThreadUpdatedAtByKey, lastWorkspaceUpdatedAt,
                 lastWorkspaceFetchAt, lastThreadFetchAt,
                 lastBackgroundThreadFetchAtByKey, lastSendRef, cache, ticks, selFetches,
                 submits, polls, outbox, results, nextCommandId>>

\* lines 1041-1047: cloudkitGetCommandResult is awaited outside any try, in a
\* callback of Promise.all that the async function of the interval awaits
\* outside any try; that function is called with `void`, so the rejection has
\* no handler.  The pending entry stays as it is for the next firing.
PollRejected(p) ==
  /\ ~EffectPending
  /\ p \in polls
  /\ polls' = polls \ {p}
  /\ unhandledRejections' = unhandledRejections \cup {"commandResultPoll"}
  /\ UNCHANGED <<now, telemetryEvents, telemetry, cloudKitPollIntervalMs, runnerId, runnerOnline, global,
                 workspaceSnaps, threadSnap, activeWorkspaceId, activeThreadId,
                 threadLoadMode, pendingByThreadKey, awaitingByThreadKey, awaitingOrder,
                 localItemsByThreadKey, lastThreadUpdatedAtByKey, lastWorkspaceUpdatedAt,
                 lastWorkspaceFetchAt, lastThreadFetchAt,
                 lastBackgroundThreadFetchAtByKey, lastSendRef, cache, ticks, selFetches,
                 submits, outbox, results, nextCommandId>>

InitReject == InitFrom(SeedCache, threadKey("w1", "tA"), FALSE)

NextReject ==
  \/ RunEffects
  \/ TickStart
  \/ \E t \in ticks, runner \in {"r1", "throw"} : TickRunner(t, runner, now)
  \/ \E t \in ticks : TickGlobal(t, NoRecord)
  \/ \E t \in ticks : TickThreadArrive(t, NoRecord)
  \/ handleSelectWorkspace("w1")
  \/ \E threadId \in {"tA", "tB"} : handleSelectThread("w1", threadId)
  \/ \E f \in selFetches : SelectWorkspaceArrive(f, NoRecord)
  \/ \E f \in selFetches : SelectThreadArrive(f, NoRecord)
  \/ \E f \in selFetches : SubmitCommandRejected(f)
  \/ handleSend("hi")
  \/ \E s \in submits : SubmitResolved(s)
  \/ \E s \in submits : SubmitRejected(s, "offline")
  \/ PollStart
  \/ \E p \in polls : PollArrive(p, NoResult)
  \/ \E p \in polls : PollRejected(p)

SpecReject == InitReject /\ [][NextReject]_vars

\* C23: no promise of the scheduler tick, the result poll, the send handler or
\* the select handlers is rejected without a handler, whichever transport call
\* fails.
C23_NoUnhandledRejection == unhandledRejections = {}

\* the failures the code does catch: a tick that throws and a send that is
\* rejected end with no rejection left over (lines 612, 1000)
CaughtFailures ==
  [][(\/ \E t \in ticks : TickRunner(t, "throw", now)
      \/ \E s \in submits : SubmitRejected(s, "offline"))
     => unhandledRejections' = unhandledRejections]_vars

\* after a rejected result fetch the entry is still waitingResult, so the next
\* firing of the interval polls it again
PollRetried ==
  [][\A p \in polls : PollRejected(p) =>
        pendingByThreadKey'[p.key] = pendingByThreadKey[p.key]]_vars
-----------------------------------------------------------------------------
(* SpecDebounce: repeated sends.  The session starts as in SpecBg, with a     *)
(* cached runner that was seen just now (line 315); the user sends "hi", " hi" *)
(* or "yo" to tA or to tB, the transport rejects submissions, which lets the   *)
(* next send through, and the clock reads 0, 1499, 1500 or 3000 ms after the   *)
(* start.                                                                      *)

DebounceTexts == {"hi", " hi", "yo"}
DebounceInstants ==
  {Epoch, Epoch + SendDebounceMs - 1, Epoch + SendDebounceMs, Epoch + 2 * SendDebounceMs}

InitDebounce == InitFrom(SeedCache, threadKey("w1", "tA"), TRUE)

NextDebounce ==
  \/ RunEffects
  \/ \E text \in DebounceTexts : handleSend(text)
  \/ \E s \in submits : SubmitRejected(s, "offline")
  \/ \E threadId \in {"tA", "tB"} : handleSelectThread("w1", threadId)
  \/ \E f \in selFetches : SelectThreadArrive(f, NoRecord)
  \/ Advance(DebounceInstants)

SpecDebounce == InitDebounce /\ [][NextDebounce]_vars

\* a send that neither the missing runner or selection, nor a pending command,
\* nor an empty text turns away
sendReachesDebounce(text) ==
  /\ canSend
  /\ ~sendBlocked(pendingByThreadKey[activeThreadKey])
  /\ Trim(text) # ""

\* the last accepted send was this text to this thread, less than 1500 ms ago
repeatsLastSend(text) ==
  /\ lastSendRef.atMs # 0
  /\ lastSendRef.workspaceId = activeWorkspaceId
  /\ lastSendRef.threadId = activeThreadId
  /\ lastSendRef.text = Trim(text)
  /\ now - lastSendRef.atMs < 1500

\* C24: a send that repeats the last accepted send (same workspace, thread and
\* trimmed text, less than 1500 ms after it) dispatches nothing and leaves the
\* pending, awaiting and overlay maps alone; a send with another text, to
\* another thread or 1500 ms or more after it is dispatched (as long as the
\* run has command ids left).
C24_Debounce ==
  /\ [][\A text \in DebounceTexts :
          (handleSend(text) /\ sendReachesDebounce(text) /\ repeatsLastSend(text)) =>
            UNCHANGED <<outbox, submits, pendingByThreadKey, awaitingByThreadKey,
                        localItemsByThreadKey, lastSendRef>>]_vars
  /\ [](\A text \in DebounceTexts :
          (sendReachesDebounce(text) /\ ~repeatsLastSend(text)
             /\ nextCommandId <= MaxCommands /\ ~EffectPending) =>
            ENABLED (/\ handleSend(text)
                     /\ \E c \in outbox' \ outbox :
                           /\ c.workspaceId = activeWorkspaceId
                           /\ c.threadId = activeThreadId
                           /\ c.text = Trim(text)
                     /\ lastSendRef'.atMs = now))

\* C24 witness: "hi" was sent to tA and failed; 1499 ms later the same thread is
\* selected, "hi" is still the last accepted send and a send would reach the
\* debounce
C24_Witness ==
  /\ sendReachesDebounce("hi")
  /\ repeatsLastSend("hi")
  /\ now - lastSendRef.atMs = SendDebounceMs - 1
  /\ pendingByThreadKey[activeThreadKey].phase = "error"
-----------------------------------------------------------------------------
(* SpecFleet: the scheduler with three workspaces.  The session starts with    *)
(* a cached runner and nothing else; the writer lists w1, w2 and w3; the user  *)
(* selects any of them or none; a workspace fetch is answered with a snapshot  *)
(* or with nothing; the clock reads 0, 9999, 10000 or 20000 ms after the       *)
(* start.                                                                      *)

FleetSeed == writeCloudCacheRunner(EmptyCache, "r1")
FleetGlobal == GlobalSnapshot(1, <<"w1", "w2", "w3">>)
FleetRecords(w) == {NoRecord, WorkspaceSnapshot(1, w, {"tA", "tB"})}
FleetInstants == {Epoch, Epoch + 9999, Epoch + 10000, Epoch + 20000}

InitFleet == InitFrom(FleetSeed, <<>>, TRUE)

NextFleet ==
  \/ TickStart
  \/ \E t \in ticks : TickRunner(t, "r1", now)
  \/ \E t \in ticks : TickGlobal(t, FleetGlobal)
  \/ \E t \in ticks, w \in Workspaces : \E record \in FleetRecords(w) :
        TickWsArrive(t, w, record)
  \/ SelectHome
  \/ \E w \in Workspaces : handleSelectWorkspace(w)
  \/ \E f \in selFetches : \E record \in FleetRecords(f.workspaceId) :
        SelectWorkspaceArrive(f, record)
  \/ Advance(FleetInstants)

SpecFleet == InitFleet /\ [][NextFleet]_vars

\* the workspaces whose fetch the tick numbered n starts in this step
wsFetchesStarted(n) ==
  {w \in Workspaces :
     /\ \E t \in ticks : t.n = n /\ t.pc = "global"
     /\ \E u \in ticks' : u.n = n /\ u.pc = "ws" /\ w \in u.left}

-----------------------------------------------------------------------------
(* SpecCadence: how often the scheduler fetches the selected thread.  The      *)
(* session starts as in SpecBg with the cached runner seen just now; the user  *)
(* selects tA or tB and sends; thread fetches are answered with a snapshot or  *)
(* with nothing; the clock reads 0, 5000 or 10000 ms after the start.          *)

CadenceInstants == {Epoch + i * DefaultPollIntervalMs : i \in 0..2}
CadenceRecords(key) == {NoRecord, ThreadSnapshot(2, key, <<Reply>>, <<>>)}

InitCadence == InitFrom(SeedCache, threadKey("w1", "tA"), TRUE)

NextCadence ==
  \/ RunEffects
  \/ TickStart
  \/ \E t \in ticks : TickRunner(t, "r1", now)
  \/ \E t \in ticks : TickGlobal(t, NoRecord)
  \/ \E t \in ticks : \E record \in CadenceRecords(threadKey(t.aWs, t.aTh)) :
        TickThreadArrive(t, record)
  \/ \E threadId \in {"tA", "tB"} : handleSelectThread("w1", threadId)
  \/ \E f \in selFetches : SelectThreadArrive(f, NoRecord)
  \/ handleSend("hi")
  \/ Advance(CadenceInstants)

SpecCadence == InitCadence /\ [][NextCadence]_vars

\* the tick t goes on to fetch its thread in this step
threadFetchStarted(t) ==
  /\ t \in ticks /\ t.pc = "global"
  /\ \E u \in ticks' : u.n = t.n /\ u.pc = "thread"

\* the interval as stated: the base interval exactly when the thread has an
\* awaiting record or a pending command that is not in error
statedRefreshMs(key) ==
  IF awaitingByThreadKey[key].commandId # 0 \/ isLive(pendingByThreadKey[key])
  THEN pollIntervalMs
  ELSE Max(2 * pollIntervalMs, 8000)

\* C26: a tick fetches its thread only if the last thread fetch of a tick is at
\* least R ms old, R being the base interval exactly when the thread has an
\* awaiting record or a pending command that is not in error, and
\* max(2 x base, 8000 ms) otherwise.
C26_ThreadCadence ==
  [][\A t \in ticks :
       (threadFetchStarted(t) /\ lastThreadFetchAt # 0) =>
         now - lastThreadFetchAt >= statedRefreshMs(threadKey(t.aWs, t.aTh))]_vars

\* what the code does: the base interval also while the thread is loading or
\* syncing (line 520), by the load mode and the commands the tick was created
\* with
RefreshAsCoded ==
  [][\A t \in ticks :
       threadFetchStarted(t) =>
         now - lastThreadFetchAt >=
           (IF t.loadMode # "idle" \/ t.fast THEN pollIntervalMs
            ELSE Max(2 * pollIntervalMs, 8000))]_vars
-----------------------------------------------------------------------------
(* SpecClamp: the poll interval setting.  The session starts as in SpecBg with *)
(* no setting; between two ticks the setting is changed to a number below, at, *)
(* inside or above the bounds, or to none; the scheduler polls the thread.     *)

ClampValues == {-1, 0, 1, 999, 1000, 1001, 5000, 29999, 30000, 30001, 2147483647}
ClampSettings == {NotConfigured} \cup {Configured(value) : value \in ClampValues}
ClampInstants == {Epoch + i * 1000 : i \in 0..2}

\* onUpdateAppSettings with another cloudKitPollIntervalMs; the memo of lines
\* 239-245 is recomputed in the render that follows
UpdateAppSettings(configured) ==
  /\ ~EffectPending
  /\ ticks = {}
  /\ cloudKitPollIntervalMs' = configured
  /\ UNCHANGED <<now, telemetryEvents, telemetry, unhandledRejections, runnerId,
                 runnerOnline, global, workspaceSnaps, threadSnap, activeWorkspaceId,
                 activeThreadId, threadLoadMode, pendingByThreadKey, awaitingByThreadKey,
                 awaitingOrder, localItemsByThreadKey, lastThreadUpdatedAtByKey,
                 lastWorkspaceUpdatedAt, lastWorkspaceFetchAt, lastThreadFetchAt,
                 lastBackgroundThreadFetchAtByKey, lastSendRef, cache, ticks, selFetches,
                 submits, polls, outbox, results, nextCommandId>>

InitClamp == InitFrom(SeedCache, threadKey("w1", "tA"), TRUE)

NextClamp ==
  \/ RunEffects
  \/ \E configured \in ClampSettings : UpdateAppSettings(configured)
  \/ TickStart
  \/ \E t \in ticks : TickRunner(t, "r1", now)
  \/ \E t \in ticks : TickGlobal(t, NoRecord)
  \/ \E t \in ticks : TickThreadArrive(t, NoRecord)
  \/ Advance(ClampInstants)

SpecClamp == InitClamp /\ [][NextClamp]_vars

\* C27: the base poll interval is within [1000, 30000]: a configured finite
\* number inside the range is taken as it is, one below it gives 1000, one
\* above it 30000, and no or a non-finite setting gives 5000.
C27_PollIntervalClamped ==
  /\ 1000 <= pollIntervalMs /\ pollIntervalMs <= 30000
  /\ ~cloudKitPollIntervalMs.finite => pollIntervalMs = 5000
  /\ cloudKitPollIntervalMs.finite =>
       /\ cloudKitPollIntervalMs.value < 1000 => pollIntervalMs = 1000
       /\ cloudKitPollIntervalMs.value > 30000 => pollIntervalMs = 30000
       /\ (1000 <= cloudKitPollIntervalMs.value /\ cloudKitPollIntervalMs.value <= 30000)
            => pollIntervalMs = cloudKitPollIntervalMs.value

\* C27 witness: a setting of 999 is in force and a tick has just used the
\* interval it gives to decide on the thread fetch
C27_Witness ==
  /\ cloudKitPollIntervalMs = Configured(999)
  /\ now = Epoch + 1000
  /\ lastThreadFetchAt = now
-----------------------------------------------------------------------------
(* SpecRaw: raw thread records.  The session starts as in SpecBg with the      *)
(* cached runner seen just now; the writer publishes snapshots of tA and tB    *)
(* that carry the raw thread only, whose entries are complete, partly filled   *)
(* (no id, no type, no text) or null.                                          *)

RawNoId == [type |-> "agentMessage", id |-> NoId, text |-> "yo"]
RawNoType == [type |-> "", id |-> "m2", text |-> "yo"]
RawNoText == [type |-> "userMessage", id |-> "u1", text |-> ""]
RawThreads ==
  {<<RawReply>>, <<RawNoId, RawReply>>, <<RawNoType, RawNoText>>, <<RawReply, JsNull>>}
RawRecords(key) ==
  {ThreadSnapshot(ts, key, <<>>, thread) : ts \in {2, 3}, thread \in RawThreads}

InitRaw == InitFrom(SeedCache, threadKey("w1", "tA"), TRUE)

NextRaw ==
  \/ RunEffects
  \/ TickStart
  \/ \E t \in ticks : TickRunner(t, "r1", now)
  \/ \E t \in ticks : TickGlobal(t, NoRecord)
  \/ \E t \in ticks : \E record \in RawRecords(threadKey(t.aWs, t.aTh)) :
        TickThreadArrive(t, record)
  \/ \E threadId \in {"tA", "tB"} : handleSelectThread("w1", threadId)
  \/ \E f \in selFetches : \E record \in RawRecords(threadKey(f.workspaceId, f.threadId)) :
        SelectThreadArrive(f, record)
  \/ Advance(Instants)

SpecRaw == InitRaw /\ [][NextRaw]_vars

\* lines 689-702: the render passes the raw thread of the snapshot in memory to
\* the normalizer
normalizerCalled ==
  /\ threadSnap.ts # 0
  /\ threadSnap.threadId = activeThreadId
  /\ threadSnap.items = <<>>
  /\ threadSnap.thread # <<>>

\* C28: the normalizer returns for every raw thread record it is given, also
\* for one with null or partly filled entries.
C28_NormalizerReturns ==
  normalizerCalled => ~buildItemsFromThreadThrows(threadSnap.thread)

\* partly filled entries are passed over and the others converted
PartialEntriesSkipped ==
  /\ buildItemsFromThread(<<RawNoId, RawReply>>) = <<Reply>>
  /\ buildItemsFromThread(<<RawNoType, RawNoText>>) = <<Message("u1", "user", "[message]")>>
-----------------------------------------------------------------------------
(* Resolution of a command by an accepted snapshot, checked under SpecBg *)

\* record comes in for key as the answer of the thread fetch of a tick
arrivesByTick(key, record) ==
  \E t \in {u \in ticks : u.pc = "thread"} :
    threadKey(t.aWs, t.aTh) = key /\ TickThreadArrive(t, record)

\* ... of the background fetch of a tick
arrivesByBackground(key, record) ==
  \E t \in {u \in ticks : u.pc = "bg"} : t.bgKey = key /\ TickBgArrive(t, record)

\* ... of the fetch that selecting the thread started
arrivesBySelect(key, record) ==
  \E f \in {g \in selFetches : g.scope = "th"} :
    threadKey(f.workspaceId, f.threadId) = key /\ SelectThreadArrive(f, record)

\* record is newer than what was accepted for key, key has an awaiting record
\* and the rendered items of record hold more assistant messages than its
\* baseline
resolvesAwaiting(key, record) ==
  /\ record.ts > lastThreadUpdatedAtByKey[key]
  /\ awaitingByThreadKey[key].commandId # 0
  /\ countAssistantMessages(record.items) > awaitingByThreadKey[key].baselineAssistantCount

\* pending entry and awaiting record of key are gone and the overlay of key is
\* reconciled with the items
resolvedBy(key, items) ==
  /\ awaitingByThreadKey'[key] = NoAwaiting
  /\ pendingByThreadKey'[key] = NoPending
  /\ localItemsByThreadKey'[key] = reconcileLocalItems(localItemsByThreadKey, key, items)[key]

\* C29: on whichever path a snapshot is newly accepted for a key that has an
\* awaiting record - thread fetch of a tick, background fetch of a tick, fetch
\* started by selecting the thread - if it holds more assistant messages than
\* the baseline, the pending entry and the awaiting record of the key are
\* cleared and the overlay is reconciled.
C29_ResolvedOnEveryPath ==
  [][\A key \in ThreadKeys : \A record \in BgRecords(key) :
       (/\ resolvesAwaiting(key, record)
        /\ \/ arrivesByTick(key, record)
           \/ arrivesByBackground(key, record)
           \/ arrivesBySelect(key, record))
       => resolvedBy(key, record.items)]_vars

\* the same for the two fetches of the tick alone
ResolvedOnTickPaths ==
  [][\A key \in ThreadKeys : \A record \in BgRecords(key) :
       (/\ resolvesAwaiting(key, record)
        /\ \/ arrivesByTick(key, record)
           \/ arrivesByBackground(key, record))
       => resolvedBy(key, record.items)]_vars

\* a snapshot accepted by the select fetch is not offered to the tick again: the
\* command stays pending although the snapshot in memory shows the reply
LeftUnresolved ==
  \E key \in ThreadKeys :
    /\ awaitingByThreadKey[key].commandId # 0
    /\ threadSnap.ts = lastThreadUpdatedAtByKey[key]
    /\ threadKey(threadSnap.workspaceId, threadSnap.threadId) = key
    /\ countAssistantMessages(threadSnap.items) > awaitingByThreadKey[key].baselineAssistantCount

-----------------------------------------------------------------------------
(* SpecRawResolve: SpecBg with a writer that publishes the reply either as     *)
(* rendered items or as the raw thread record alone.                           *)

RawReply2 == [type |-> "agentMessage", id |-> "m2", text |-> "ok"]
RawHi == [type |-> "userMessage", id |-> "u1", text |-> "hi"]

RawResolvePayloads ==
  {[items |-> <<Reply, Hi, Reply2>>, thread |-> <<>>],
   [items |-> <<>>, thread |-> <<RawReply, RawHi, RawReply2>>]}
RawResolveRecords(key) ==
  {ThreadSnapshot(MaxTs, key, p.items, p.thread) : p \in RawResolvePayloads}

InitRawResolve == InitFrom(SeedCache, threadKey("w1", "tA"), FALSE)

NextRawResolve ==
  \/ RunEffects
  \/ TickStart
  \/ \E t \in ticks : TickRunner(t, "r1", now)
  \/ \E t \in ticks : TickGlobal(t, NoRecord)
  \/ \E t \in {u \in ticks : u.pc = "thread"} :
        \E record \in RawResolveRecords(threadKey(t.aWs, t.aTh)) : TickThreadArrive(t, record)
  \/ \E t \in {u \in ticks : u.pc = "bg"} :
        \E record \in RawResolveRecords(t.bgKey) \cup {NoRecord} : TickBgArrive(t, record)
  \/ SelectHome
  \/ handleSelectThread("w1", "tB")
  \/ \E f \in selFetches : SelectThreadArrive(f, NoRecord)
  \/ nextCommandId = 1 /\ handleSend("hi")
  \/ \E s \in submits : SubmitResolved(s)
  \/ Advance(Instants)

SpecRawResolve == InitRawResolve /\ [][NextRawResolve]_vars

\* lines 692-702: the items the render shows for record
renderedItems(record) == baseItemsOf(record)

\* record carries the raw thread alone
rawOnly(record) == record.items = <<>> /\ record.thread # <<>>

\* record is newer than what was accepted for key, key has an awaiting record
\* and the items the render shows for record hold more assistant messages than
\* its baseline
repliesToAwaiting(key, record) ==
  /\ record.ts > lastThreadUpdatedAtByKey[key]
  /\ awaitingByThreadKey[key].commandId # 0
  /\ countAssistantMessages(renderedItems(record))
       > awaitingByThreadKey[key].baselineAssistantCount

\* C30: a snapshot newly accepted by a fetch of the tick that carries the raw
\* thread alone is treated as one with rendered items: the items normalized
\* from the raw thread reconcile the overlay of the key, and when they hold
\* more assistant messages than the baseline of the awaiting record, the
\* pending entry and the awaiting record of the key are cleared.
C30_RawOnlyReconciled ==
  [][\A key \in ThreadKeys : \A record \in RawResolveRecords(key) :
       (/\ rawOnly(record)
        /\ repliesToAwaiting(key, record)
        /\ arrivesByTick(key, record) \/ arrivesByBackground(key, record))
       => resolvedBy(key, renderedItems(record))]_vars

\* the same snapshot with its items rendered by the writer is
RenderedReconciled ==
  [][\A key \in ThreadKeys : \A record \in RawResolveRecords(key) :
       (/\ ~rawOnly(record)
        /\ repliesToAwaiting(key, record)
        /\ arrivesByTick(key, record) \/ arrivesByBackground(key, record))
       => resolvedBy(key, renderedItems(record))]_vars

\* lines 546-550, 589-593: the raw-only one is accepted and leaves overlay,
\* awaiting record and pending entry as they are
RawOnlyLeftAlone ==
  [][\A key \in ThreadKeys : \A record \in RawResolveRecords(key) :
       (/\ rawOnly(record)
        /\ repliesToAwaiting(key, record)
        /\ arrivesByTick(key, record) \/ arrivesByBackground(key, record))
       => /\ lastThreadUpdatedAtByKey'[key] = record.ts
          /\ UNCHANGED <<localItemsByThreadKey, awaitingByThreadKey, pendingByThreadKey>>]_vars

\* the render shows the reply of the raw thread while the command is pending
RawReplyShownWhilePending ==
  /\ activeThreadKey # <<>>
  /\ rawOnly(threadSnap)
  /\ awaitingByThreadKey[activeThreadKey].commandId # 0
  /\ pendingByThreadKey[activeThreadKey] # NoPending
  /\ countAssistantMessages(activeItems)
       > awaitingByThreadKey[activeThreadKey].baselineAssistantCount
-----------------------------------------------------------------------------
(* Late outcomes of a command, checked under SpecCmd *)

\* the pending entry of key is not (or no longer) that of commandId
notPendingFor(key, commandId) == pendingByThreadKey[key].id # commandId

\* lines 1047-1123: the result poll of commandId on key is answered
pollOutcome(key, commandId) ==
  \E p \in polls :
    /\ p.key = key /\ p.pending.id = commandId
    /\ results[commandId] # NoResult
    /\ PollArrive(p, results[commandId])

\* lines 995-1016: the submission of commandId on key resolves or throws
submitOutcome(key, commandId) ==
  \E s \in submits :
    /\ s.key = key /\ s.commandId = commandId
    /\ SubmitResolved(s) \/ SubmitRejected(s, "offline")

\* pending entry and awaiting record of key stay as they are
recordsKept(key) ==
  /\ pendingByThreadKey'[key] = pendingByThreadKey[key]
  /\ awaitingByThreadKey'[key] = awaitingByThreadKey[key]

\* C31: the outcome of a command - the answer of its result poll, or its
\* submission resolving or throwing - that comes in when the pending entry of
\* its thread key is gone or belongs to a later command leaves the pending
\* entry and the awaiting record of that key as they are: the later command's
\* entry is not overwritten, its awaiting record is not deleted and no entry
\* is made for the old command.
C31_OutcomeOfOwnCommand ==
  [][\A key \in ThreadKeys : \A commandId \in 1..MaxCommands :
       (/\ notPendingFor(key, commandId)
        /\ pollOutcome(key, commandId) \/ submitOutcome(key, commandId))
       => recordsKept(key)]_vars

\* lines 995-999, 1077-1084: the two updates that compare the command id - the
\* submission that resolves and the ok result without inline text - do
LateAcknowledgementIgnored ==
  [][\A key \in ThreadKeys : \A commandId \in 1..MaxCommands :
       (/\ notPendingFor(key, commandId)
        /\ \/ \E s \in submits : s.key = key /\ s.commandId = commandId /\ SubmitResolved(s)
           \/ /\ results[commandId] = [ok |-> TRUE, payloadJson |-> "{}"]
              /\ pollOutcome(key, commandId))
       => recordsKept(key)]_vars

\* the entry of the second command replaced by the failure of the first
OverwrittenByLateFailure ==
  \E key \in ThreadKeys :
    /\ nextCommandId = 3
    /\ pendingByThreadKey[key].id = 1
    /\ pendingByThreadKey[key].phase = "error"
    /\ awaitingByThreadKey[key] = NoAwaiting
    /\ \E s \in submits : s.key = key /\ s.commandId = 2
-----------------------------------------------------------------------------
(* SpecPoll: result polls that outlast the poll interval.  The interval of     *)
(* line 1035 fires every 1.5 s and starts a fetch for every entry in phase     *)
(* waitingResult, whether or not an earlier fetch for it has been answered.    *)

MaxPollOverlap == 2   \* result polls of one thread key in flight at once, here

\* lines 1035-1047: the interval fires while a fetch of an earlier firing is
\* still awaited
PollOverlap ==
  /\ ~EffectPending
  /\ runnerId # NoId
  /\ LET entries == {k \in ThreadKeys : pendingByThreadKey[k].phase = "waitingResult"}
         free(k) == {i \in 1..MaxPollOverlap : \A p \in polls : ~(p.key = k /\ p.n = i)}
     IN  /\ entries # {}
         /\ \E p \in polls : p.key \in entries
         /\ \A k \in entries : free(k) # {}
         /\ polls' = polls \cup
              {[n |-> CHOOSE i \in free(k) : \A j \in free(k) : i <= j,
                key |-> k, pending |-> pendingByThreadKey[k]] : k \in entries}
  /\ UNCHANGED <<now, telemetryEvents, runnerId, runnerOnline, global, workspaceSnaps, threadSnap,
                 activeWorkspaceId, activeThreadId, threadLoadMode, pendingByThreadKey,
                 awaitingByThreadKey, awaitingOrder, localItemsByThreadKey,
                 lastThreadUpdatedAtByKey, lastWorkspaceUpdatedAt, lastWorkspaceFetchAt,
                 lastThreadFetchAt, lastBackgroundThreadFetchAtByKey, lastSendRef, cache,
                 ticks, selFetches, submits, outbox, results, nextCommandId>>
  /\ UNCHANGED <<telemetry, unhandledRejections, cloudKitPollIntervalMs>>

PollResults ==
  {[ok |-> TRUE, payloadJson |-> "{assistantText:hello}"],
   [ok |-> TRUE, payloadJson |-> "{}"]}
PollInstants == {Epoch + i * SendDebounceMs : i \in 0..2}

InitPoll == InitFrom(SeedCache, threadKey("w1", "tA"), TRUE)

NextPoll ==
  \/ RunEffects
  \/ \E text \in {"hi", "yo"} : handleSend(text)
  \/ \E s \in submits : SubmitResolved(s)
  \/ PollStart
  \/ PollOverlap
  \/ \E p \in polls : PollArrive(p, results[p.pending.id])
  \/ \E c \in 1..MaxCommands, result \in PollResults : WriterResult(c, result)
  \/ handleSelectThread("w1", "tB")
  \/ \E f \in selFetches : SelectThreadArrive(f, NoRecord)
  \/ Advance(PollInstants)

SpecPoll == InitPoll /\ [][NextPoll]_vars

\* the places of the overlay of key that hold an item with this id
placesOf(key, id) ==
  {i \in 1..Len(localItemsByThreadKey[key]) : localItemsByThreadKey[key][i].id = id}

\* C32: the ids of the overlay items of a thread key are pairwise different;
\* the inline reply of a command is in the overlay at most once, also when two
\* result polls of the command were in flight at once.
C32_OverlayIdsUnique ==
  \A key \in ThreadKeys : \A i \in 1..Len(localItemsByThreadKey[key]) :
    placesOf(key, localItemsByThreadKey[key][i].id) = {i}

\* lines 961-972: the user message of a command is in the overlay once
UserItemOncePerCommand ==
  \A key \in ThreadKeys : \A c \in 1..MaxCommands :
    Cardinality(placesOf(key, LocalId(c, "user"))) <= 1

\* two polls of one command in flight at once
PollsOverlapped ==
  \E p, q \in polls : p # q /\ p.key = q.key /\ p.pending.id = q.pending.id
-----------------------------------------------------------------------------
(* SpecGrowth: a store that does not change.  The store holds one snapshot    *)
(* of tA - a conversation of 81 items that starts with an assistant message   *)
(* and goes on with user messages and tool items - and one of tB, with one    *)
(* assistant message.  The cache holds the compacted copy of an older         *)
(* snapshot of tA with the same items.  Nothing is published during the run:  *)
(* no assistant message is newer than any send.                                *)

\* n items: the assistant message m1, then user messages and tool items
OldReplyItems(n) ==
  [i \in 1..n |->
     IF i = 1 THEN Reply
     ELSE IF i % 2 = 0 THEN ToolItem("t" \o ToString(i))
     ELSE Message("u" \o ToString(i), "user", "old")]

StoreThread(key) ==
  IF key = threadKey("w1", "tA")
  THEN ThreadSnapshot(MaxTs, key, OldReplyItems(MAX_THREAD_ITEMS + 1), <<>>)
  ELSE ThreadSnapshot(MaxTs, key, <<Reply>>, <<>>)

GrowthSeed ==
  writeCloudCacheThread(
    CmdSeed,
    ThreadSnapshot(1, threadKey("w1", "tA"), OldReplyItems(MAX_THREAD_ITEMS + 1), <<>>))

InitGrowth == InitFrom(GrowthSeed, threadKey("w1", "tA"), FALSE)

NextGrowth ==
  \/ RunEffects
  \/ TickStart
  \/ \E t \in ticks : TickRunner(t, "r1", now)
  \/ \E t \in ticks : TickGlobal(t, NoRecord)
  \/ \E t \in {u \in ticks : u.pc = "thread"} :
        TickThreadArrive(t, StoreThread(threadKey(t.aWs, t.aTh)))
  \/ \E t \in {u \in ticks : u.pc = "bg"} : TickBgArrive(t, StoreThread(t.bgKey))
  \/ SelectHome
  \/ \E threadId \in {"tA", "tB"} : handleSelectThread("w1", threadId)
  \/ \E f \in selFetches : SelectThreadArrive(f, StoreThread(threadKey(f.workspaceId, f.threadId)))
  \/ nextCommandId = 1 /\ handleSend("hi")
  \/ \E s \in submits : SubmitResolved(s)
  \/ Advance(Instants)

SpecGrowth == InitGrowth /\ [][NextGrowth]_vars

\* a fetch of the tick for key is answered with what the store holds
storeAnswersTick(key) ==
  arrivesByTick(key, StoreThread(key)) \/ arrivesByBackground(key, StoreThread(key))

\* C33: an accepted snapshot that holds no assistant message newer than the
\* send leaves the pending entry and the awaiting record as they are - here
\* every answer of the store, which holds what it held before the first send -
\* whether the baseline was counted on the compacted copy of the cache, on no
\* snapshot at all or on the live snapshot.
C33_GrowthAfterSendOnly ==
  [][\A key \in ThreadKeys :
       (awaitingByThreadKey[key].commandId # 0 /\ storeAnswersTick(key))
       => recordsKept(key)]_vars

\* lines 207-236: a baseline counted on the whole of the store's snapshot does
BaselineOfWholeSnapshotKept ==
  [][\A key \in ThreadKeys :
       (/\ awaitingByThreadKey[key].commandId # 0
        /\ awaitingByThreadKey[key].baselineAssistantCount
             = countAssistantMessages(StoreThread(key).items)
        /\ storeAnswersTick(key))
       => recordsKept(key)]_vars

\* line 946 on the compacted copy: the copy of the cache is on display, the
\* command is pending and the baseline is short of the assistant message that
\* the copy lost
BaselineOfCompactedCopy ==
  LET key == threadKey("w1", "tA")
  IN  /\ activeThreadKey = key
      /\ threadSnap.ts = 1
      /\ Len(threadSnap.items) = MAX_THREAD_ITEMS
      /\ awaitingByThreadKey[key].commandId # 0
      /\ awaitingByThreadKey[key].baselineAssistantCount = 0

\* line 946 with no snapshot on display
BaselineOfNoSnapshot ==
  LET key == threadKey("w1", "tB")
  IN  /\ activeThreadKey = key
      /\ threadSnap.ts = 0
      /\ awaitingByThreadKey[key].commandId # 0
      /\ awaitingByThreadKey[key].baselineAssistantCount = 0
\* the command sent on key is no longer pending: in SpecGrowth, where no
\* submission throws, no result is polled and no record times out, it was
\* cleared by an answer of the store
clearedByStore(key) ==
  /\ \E c \in outbox : keyOf(c) = key
  /\ pendingByThreadKey[key] = NoPending
  /\ awaitingByThreadKey[key] = NoAwaiting

ClearedOnCompactedBaseline == clearedByStore(threadKey("w1", "tA"))
ClearedOnEmptyBaseline == clearedByStore(threadKey("w1", "tB"))
-----------------------------------------------------------------------------
(* SpecShow: the store of SpecGrowth, which does not change, under fairness:  *)
(* the scheduler keeps ticking, every fetch is answered with what the store   *)
(* holds and the effects of a render run.  The session starts either with no  *)
(* thread in the cache or - after a restart - with the compacted copy of the  *)
(* store's snapshot of tA in it; the user moves between tA and tB.             *)

ShowSeed == writeCloudCacheThread(CmdSeed, StoreThread(threadKey("w1", "tA")))

InitShow ==
  /\ now = Epoch
  /\ \E cached \in {CmdSeed, ShowSeed} : InitFrom(cached, threadKey("w1", "tA"), FALSE)

ShowTickSteps ==
  \/ \E t \in ticks : TickRunner(t, "r1", now)
  \/ \E t \in ticks : TickGlobal(t, NoRecord)
  \/ \E t \in {u \in ticks : u.pc = "thread"} :
        TickThreadArrive(t, StoreThread(threadKey(t.aWs, t.aTh)))

ShowSelectArrives ==
  \E f \in selFetches : SelectThreadArrive(f, StoreThread(threadKey(f.workspaceId, f.threadId)))

NextShow ==
  \/ RunEffects
  \/ TickStart
  \/ ShowTickSteps
  \/ \E threadId \in {"tA", "tB"} : handleSelectThread("w1", threadId)
  \/ ShowSelectArrives
  \/ Advance(Instants)

SpecShow ==
  /\ InitShow
  /\ [][NextShow]_vars
  /\ WF_vars(RunEffects)
  /\ WF_vars(TickStart)
  /\ WF_vars(ShowTickSteps)
  /\ WF_vars(ShowSelectArrives)

\* the items on display are those of the store's snapshot of key
showsStore(key) ==
  /\ threadSnap.ts # 0
  /\ threadKey(threadSnap.workspaceId, threadSnap.threadId) = key
  /\ activeItems = StoreThread(key).items

\* C34: with a store that does not change and fetches that are answered, a
\* thread that is active comes to be displayed with exactly the items of the
\* store's snapshot (unless the user leaves it first) - after a restart that
\* hydrated it from the cache and after coming back to it as well.
C34_StoreShownEventually ==
  \A key \in {threadKey("w1", "tA"), threadKey("w1", "tB")} :
    (activeThreadKey = key) ~> (activeThreadKey # key \/ showsStore(key))

\* the store's snapshots do come to be displayed in other runs
StoreShown ==
  showsStore(threadKey("w1", "tA")) /\ activeThreadKey = threadKey("w1", "tA")

\* lines 536-545 of a tick started for tA, answered after the user moved to
\* tB and the select fetch of tB was accepted: the snapshot of tA is in
\* threadSnap, nothing of tB is displayed and no fetch of tB is accepted again
NothingShownAfterStaleAnswer ==
  /\ activeThreadKey = threadKey("w1", "tB")
  /\ lastThreadUpdatedAtByKey[activeThreadKey] = StoreThread(activeThreadKey).ts
  /\ threadSnap.threadId = "tA"
  /\ activeItems = <<>>
  /\ ticks = {} /\ selFetches = {}

\* lines 362-366, 843-846, 542, 886: once the timestamp of the store's snapshot
\* is the last accepted one of tA and the copy of the cache is on display, the
\* copy stays on display as long as tA is active
CopyStays ==
  [][LET key == threadKey("w1", "tA")
     IN  (/\ activeThreadKey = key
          /\ activeThreadKey' = key
          /\ lastThreadUpdatedAtByKey[key] = StoreThread(key).ts
          /\ threadSnap = compactThreadSnapshot(StoreThread(key)))
         => threadSnap' = threadSnap]_vars

\* the copy on display after a restart, and after coming back to tA
CopyShownAfterRestart ==
  /\ cache = ShowSeed
  /\ activeThreadKey = threadKey("w1", "tA")
  /\ threadSnap = compactThreadSnapshot(StoreThread(activeThreadKey))
  /\ ~showsStore(activeThreadKey)

CopyShownAfterSwitchBack ==
  /\ cache # ShowSeed
  /\ lastThreadUpdatedAtByKey[threadKey("w1", "tB")] # 0
  /\ activeThreadKey = threadKey("w1", "tA")
  /\ threadSnap = compactThreadSnapshot(StoreThread(activeThreadKey))
  /\ ~showsStore(activeThreadKey)
-----------------------------------------------------------------------------
(* Agreement of the pending map and the awaiting map, checked under SpecCmd *)

\* C35: in every state, a thread key has an awaiting record only if its
\* pending entry is in a phase other than error and has the record's command
\* id, and a pending entry in a phase other than error has an awaiting record
\* with its command id.
C35_MapsAgree ==
  \A key \in ThreadKeys :
    /\ awaitingByThreadKey[key].commandId # 0
         => /\ isLive(pendingByThreadKey[key])
            /\ pendingByThreadKey[key].id = awaitingByThreadKey[key].commandId
    /\ isLive(pendingByThreadKey[key])
         => awaitingByThreadKey[key].commandId = pendingByThreadKey[key].id

\* command 1 failed by its result and command 2 is awaited on the same key
C35_Witness ==
  \E key \in ThreadKeys :
    /\ results[1] # NoResult /\ ~results[1].ok
    /\ pendingByThreadKey[key].id = 2
    /\ pendingByThreadKey[key].phase = "waitingReply"
    /\ awaitingByThreadKey[key].commandId = 2
-----------------------------------------------------------------------------
(* SpecGone: the writer goes away in the middle of a session.  As SpecBg, but  *)
(* the discovery of a tick finds the writer or finds none.                     *)

InitGone == InitFrom(SeedCache, threadKey("w1", "tA"), FALSE)

NextGone ==
  \/ RunEffects
  \/ TickStart
  \/ \E t \in ticks, runner \in {"r1", NoId} : TickRunner(t, runner, now)
  \/ \E t \in ticks : TickGlobal(t, NoRecord)
  \/ \E t \in {u \in ticks : u.pc = "thread"} : \E record \in BgRecords(threadKey(t.aWs, t.aTh)) :
        TickThreadArrive(t, record)
  \/ \E t \in {u \in ticks : u.pc = "bg"} : \E record \in BgRecords(t.bgKey) \cup {NoRecord} :
        TickBgArrive(t, record)
  \/ handleSelectThread("w1", "tB")
  \/ \E f \in selFetches : SelectThreadArrive(f, NoRecord)
  \/ nextCommandId = 1 /\ handleSend("hi")
  \/ \E s \in submits : SubmitResolved(s)
  \/ Advance(Instants)

SpecGone == InitGone /\ [][NextGone]_vars

\* lines 418-424: the discovery of a tick answers and the tick returns at
\* once - in SpecGone, where no call throws, because it found no writer
tickEndsAtDiscovery == \E t \in ticks : t.pc = "runner" /\ ticks' = ticks \ {t}

\* C36: a tick whose discovery finds no writer sets the runner id to none and
\* the online flag to false (the label goes with the id), leaves the global,
\* workspace and thread snapshots in memory, the pending, awaiting and overlay
\* maps and the cache as they are, and ends without a fetch of a snapshot: no
\* fetch of it is in flight and no last-fetch or last-accepted mark moves.
C36_NoWriterFrame ==
  [][tickEndsAtDiscovery
       => /\ runnerId' = NoId /\ runnerOnline' = FALSE
          /\ UNCHANGED <<global, workspaceSnaps, threadSnap>>
          /\ UNCHANGED <<pendingByThreadKey, awaitingByThreadKey, awaitingOrder,
                         localItemsByThreadKey, cache>>
          /\ UNCHANGED <<selFetches, lastWorkspaceFetchAt, lastThreadFetchAt,
                         lastBackgroundThreadFetchAtByKey, lastThreadUpdatedAtByKey,
                         lastWorkspaceUpdatedAt>>]_vars

\* the writer was there - a snapshot of tA was fetched and accepted, a command
\* is pending - and the last tick found none: the snapshots are still in memory
C36_Witness ==
  /\ runnerId = NoId /\ ~runnerOnline
  /\ ticks = {}
  /\ lastThreadUpdatedAtByKey[threadKey("w1", "tA")] = MaxTs
  /\ global.ts # 0 /\ workspaceSnaps["w1"].ts # 0 /\ threadSnap.ts = MaxTs
  /\ \E key \in ThreadKeys : isLive(pendingByThreadKey[key])
-----------------------------------------------------------------------------
(* SpecMerge: the rendered list.  The cache holds a snapshot of tA of 1, 12   *)
(* or 13 items, the longer ones with the user message "hi" at their head; the *)
(* user sends "hi" and "yo" on tA and on tB, of which nothing is cached, and   *)
(* sends again after a submission that threw.                                  *)

\* n items: the user message "hi", then tool items and assistant messages
BaseWithHi(n) ==
  [i \in 1..n |->
     IF i = 1 THEN Hi
     ELSE IF i % 2 = 0 THEN ToolItem("t" \o ToString(i))
     ELSE Message("m" \o ToString(i), "assistant", "re" \o ToString(i))]

MergeBases == {<<Reply>>, BaseWithHi(TailWindow), BaseWithHi(TailWindow + 1)}
MergeSeed(base) ==
  writeCloudCacheThread(CmdSeed, ThreadSnapshot(1, threadKey("w1", "tA"), base, <<>>))
MergeInstants == {Epoch + i * SendDebounceMs : i \in 0..2}

InitMerge ==
  /\ now = Epoch
  /\ \E base \in MergeBases : InitFrom(MergeSeed(base), threadKey("w1", "tA"), TRUE)

NextMerge ==
  \/ RunEffects
  \/ \E text \in {"hi", "yo"} : handleSend(text)
  \/ \E s \in submits : SubmitResolved(s)
  \/ \E s \in submits : SubmitRejected(s, "offline")
  \/ \E threadId \in {"tA", "tB"} : handleSelectThread("w1", threadId)
  \/ \E f \in selFetches : SelectThreadArrive(f, NoRecord)
  \/ Advance(MergeInstants)

SpecMerge == InitMerge /\ [][NextMerge]_vars

\* the authoritative items of the active thread: those of its snapshot in
\* memory, none when there is none
baseOfActive ==
  IF threadSnap.ts # 0 /\ threadSnap.threadId = activeThreadId
  THEN baseItemsOf(threadSnap) ELSE <<>>

\* a message among the last 12 of base, or an overlay item before place i, has
\* the signature of the message at place i of the overlay
statedOmitted(base, local, i) ==
  /\ isMessage(local[i])
  /\ \/ \E j \in 1..Len(LastN(base, TailWindow)) :
          /\ isMessage(LastN(base, TailWindow)[j])
          /\ Signature(LastN(base, TailWindow)[j]) = Signature(local[i])
     \/ \E j \in 1..(i - 1) : isMessage(local[j]) /\ Signature(local[j]) = Signature(local[i])

\* the overlay items from place i on, less the omitted ones
RECURSIVE statedOverlay(_, _, _)
statedOverlay(base, local, i) ==
  IF i > Len(local) THEN <<>>
  ELSE (IF statedOmitted(base, local, i) THEN <<>> ELSE <<local[i]>>)
         \o statedOverlay(base, local, i + 1)

statedList(base, local) == base \o statedOverlay(base, local, 1)

\* C37: the rendered list of the active thread is its authoritative items, in
\* their order and all of them, followed by the overlay items of its key in
\* the order of their insertion, less only the message items whose signature
\* (kind, role, text) is that of a message among the last 12 authoritative
\* items or of an overlay item before them.
C37_RenderedList ==
  activeThreadKey \in ThreadKeys
    => activeItems = statedList(baseOfActive, localItemsByThreadKey[activeThreadKey])

\* lines 692-728: it is whenever a snapshot of the active thread is in memory
RenderedListOfSnapshot ==
  (activeThreadKey \in ThreadKeys /\ threadSnap.ts # 0 /\ threadSnap.threadId = activeThreadId)
    => activeItems = statedList(baseItemsOf(threadSnap), localItemsByThreadKey[activeThreadKey])

\* lines 689-691: with no snapshot of the active thread in memory the list is
\* empty, whatever the overlay holds
OverlayNotRendered ==
  /\ activeThreadKey \in ThreadKeys
  /\ localItemsByThreadKey[activeThreadKey] # <<>>
  /\ activeItems = <<>>

\* "hi" of the overlay rendered after a base whose "hi" is older than the last
\* 12 items, and omitted after a base whose "hi" is among them
OldMessageDoesNotSuppress ==
  /\ activeThreadKey \in ThreadKeys
  /\ threadSnap.items = BaseWithHi(TailWindow + 1)
  /\ userMessages(localItemsByThreadKey[activeThreadKey], "hi") = 1
  /\ userMessages(activeItems, "hi") = 2

TailMessageSuppresses ==
  /\ activeThreadKey \in ThreadKeys
  /\ threadSnap.items = BaseWithHi(TailWindow)
  /\ userMessages(localItemsByThreadKey[activeThreadKey], "hi") = 1
  /\ userMessages(activeItems, "hi") = 1
-----------------------------------------------------------------------------
(* A message sent a second time, checked under SpecMerge *)

\* the send of text goes through on a thread whose snapshot is in memory and
\* holds a user message of that text
sendsRepeatedText(text) ==
  /\ ~sendRejected(text)
  /\ threadSnap.ts # 0 /\ threadSnap.threadId = activeThreadId
  /\ userMessages(baseOfActive, Trim(text)) >= 1
  /\ handleSend(text)

\* C38: a message sent with the text of a user message that the authoritative
\* items of the thread already hold is kept in the overlay and is rendered:
\* the send raises the number of rendered user messages of that text by one.
C38_SentMessageRendered ==
  [][\A text \in {"hi", "yo"} :
       sendsRepeatedText(text)
       => /\ userMessages(localItemsByThreadKey'[activeThreadKey], Trim(text))
               = userMessages(localItemsByThreadKey[activeThreadKey], Trim(text)) + 1
          /\ userMessages(activeItems', Trim(text))
               = userMessages(activeItems, Trim(text)) + 1]_vars

\* lines 961-972: the message is put into the overlay
SentMessageInOverlay ==
  [][\A text \in {"hi", "yo"} :
       sendsRepeatedText(text)
       => userMessages(localItemsByThreadKey'[activeThreadKey], Trim(text))
            = userMessages(localItemsByThreadKey[activeThreadKey], Trim(text)) + 1]_vars

\* lines 713-723: it is rendered when the earlier message is older than the
\* last 12 authoritative items
RepeatedTextRenderedPastTail ==
  [][\A text \in {"hi", "yo"} :
       (/\ sendsRepeatedText(text)
        /\ userMessages(LastN(baseOfActive, TailWindow), Trim(text)) = 0
        /\ userMessages(localItemsByThreadKey[activeThreadKey], Trim(text)) = 0)
       => userMessages(activeItems', Trim(text)) = userMessages(activeItems, Trim(text)) + 1]_vars

\* the command is pending, its message is in the overlay, and the list shows
\* the one "hi" of the snapshot
SentMessageNotRendered ==
  /\ activeThreadKey \in ThreadKeys
  /\ isLive(pendingByThreadKey[activeThreadKey])
  /\ threadSnap.ts # 0 /\ threadSnap.threadId = activeThreadId
  /\ userMessages(baseOfActive, "hi") = 1
  /\ userMessages(localItemsByThreadKey[activeThreadKey], "hi") = 1
  /\ activeItems = baseOfActive
-----------------------------------------------------------------------------
(* SpecStarve: the scheduler of SpecFleet under fairness, with a store that   *)
(* holds a snapshot of w1 and of w3 and none that parses of w2.  The writer   *)
(* is found by every tick and lists w1, w2 and w3; the ticks keep running and  *)
(* every fetch is answered; the user stays on the home screen or selects w1.   *)

StarveRecords(w) ==
  IF w = "w2" THEN {NoRecord, Unparsable} ELSE {WorkspaceSnapshot(1, w, {"tA", "tB"})}

InitStarve == InitFrom(FleetSeed, <<>>, TRUE)

StarveTickSteps ==
  \/ \E t \in ticks : TickRunner(t, "r1", now)
  \/ \E t \in ticks : TickGlobal(t, FleetGlobal)
  \/ \E t \in ticks, w \in Workspaces : \E record \in StarveRecords(w) :
        TickWsArrive(t, w, record)

NextStarve ==
  \/ TickStart
  \/ StarveTickSteps
  \/ SelectHome
  \/ handleSelectWorkspace("w1")
  \/ \E f \in selFetches : \E record \in StarveRecords(f.workspaceId) :
        SelectWorkspaceArrive(f, record)
  \/ Advance(FleetInstants)

SpecStarve ==
  /\ InitStarve
  /\ [][NextStarve]_vars
  /\ WF_vars(TickStart)
  /\ WF_vars(StarveTickSteps)
  /\ SF_vars(Advance(FleetInstants))

\* lines 474-481: a tick has fetched the scope of w
fetchedByTick(w) == lastWorkspaceFetchAt[w] # 0

\* C39: every workspace that the global snapshot lists comes to be fetched by
\* the scheduler, also when the store holds no snapshot, or one that does not
\* parse, of another workspace of the list.
C39_EveryWorkspaceFetched ==
  \A w \in Workspaces : Contains(global.workspaces, w) ~> fetchedByTick(w)

\* lines 456-469: w1 and w2 are, by the first tick that has the list
FirstTwoFetched ==
  \A w \in {"w1", "w2"} : Contains(global.workspaces, w) ~> fetchedByTick(w)

\* lines 463-468: w2, of which no snapshot is ever accepted, takes the second
\* place of every tick, and no tick fetches w3
ThirdNeverFetched == ~fetchedByTick("w3")

\* ticks have fetched w1 and w2 again, a refresh interval after the first time
FetchedAgain ==
  /\ lastWorkspaceFetchAt["w1"] > Epoch
  /\ lastWorkspaceFetchAt["w2"] > Epoch
  /\ lastWorkspaceUpdatedAt["w1"] # 0
  /\ lastWorkspaceUpdatedAt["w2"] = 0
-----------------------------------------------------------------------------
(* SpecQueue: two commands, on two threads, and the user on a third thread,   *)
(* under fairness.  The user acts within the first poll interval: sends on    *)
(* the thread shown and selects tB or tC.  From then on the interval timer of *)
(* line 618 starts a tick every pollIntervalMs, every fetch is answered, and  *)
(* the store holds no thread snapshot, so no awaiting record is resolved      *)
(* before the timeout check of lines 1143-1176 removes it.  The app settings  *)
(* hold the longest poll interval, QueuePollSetting.                           *)

\* the cache of a session that listed three threads of w1
QueueSeed ==
  writeCloudCacheThread(
    writeCloudCacheWorkspace(
      writeCloudCacheGlobal(writeCloudCacheRunner(EmptyCache, "r1"),
                            GlobalSnapshot(1, <<"w1", "w2">>)),
      WorkspaceSnapshot(1, "w1", ThreadIds)),
    ThreadSnapshot(1, threadKey("w1", "tA"), <<Reply>>, <<>>))

\* appSettings.cloudKitPollIntervalMs of the session, the upper end of the
\* clamp of lines 239-245
QueuePollSetting == 30000

\* the clock reading at which the run is cut, past the reply timeout of the
\* commands sent at Epoch
QueueEnd == Epoch + ReplyTimeoutMs + 2 * QueuePollSetting

InitQueue ==
  /\ now = Epoch
  /\ MountedWithSetting(QueueSeed, threadKey("w1", "tA"), TRUE, {},
                        Configured(QueuePollSetting))

\* line 618: the interval timer fires, pollIntervalMs after it fired last, and
\* calls tick() (line 414)
IntervalTick ==
  /\ ~EffectPending
  /\ ticks = {}
  /\ now + pollIntervalMs <= QueueEnd
  /\ now' = now + pollIntervalMs
  /\ ticks' = {[n |-> 1, aWs |-> activeWorkspaceId, aTh |-> activeThreadId,
                loadMode |-> threadLoadMode, fast |-> shouldFastPollActiveThread,
                pc |-> "runner", ids |-> <<>>, left |-> {},
                got |-> [w \in Workspaces |-> NoWorkspaceSnap], tnow |-> 0, bgKey |-> <<>>]}
  /\ UNCHANGED <<telemetryEvents, runnerId, runnerOnline, global, workspaceSnaps, threadSnap,
                 activeWorkspaceId, activeThreadId, threadLoadMode, pendingByThreadKey,
                 awaitingByThreadKey, awaitingOrder, localItemsByThreadKey,
                 lastThreadUpdatedAtByKey, lastWorkspaceUpdatedAt, lastWorkspaceFetchAt,
                 lastThreadFetchAt, lastBackgroundThreadFetchAtByKey, lastSendRef, cache,
                 selFetches, submits, polls, outbox, results, nextCommandId>>
  /\ UNCHANGED <<telemetry, unhandledRejections, cloudKitPollIntervalMs>>

QueueTickSteps ==
  \/ \E t \in ticks : TickRunner(t, "r1", now)
  \/ \E t \in ticks : TickGlobal(t, NoRecord)
  \/ \E t \in ticks : TickThreadArrive(t, NoRecord)
  \/ \E t \in ticks : TickBgArrive(t, NoRecord)

\* what happens within the first interval: the tick of line 617, of the mount
\* and of every set-up of the effect that the user's actions cause, and the
\* user's actions with their answers
QueueFirstInterval ==
  /\ now = Epoch
  /\ \/ TickStart
     \/ handleSend("hi")
     \/ \E s \in submits : SubmitResolved(s)
     \/ handleSelectThread("w1", "tB")
     \/ handleSelectThread("w1", "tC")
     \/ \E f \in selFetches : SelectThreadArrive(f, NoRecord)

NextQueue ==
  \/ RunEffects
  \/ QueueFirstInterval
  \/ IntervalTick
  \/ QueueTickSteps
  \/ ReplyTimeoutCheck

SpecQueue ==
  /\ InitQueue
  /\ [][NextQueue]_vars
  /\ WF_vars(RunEffects)
  /\ WF_vars(IntervalTick)
  /\ WF_vars(QueueTickSteps)
  /\ SF_vars(ReplyTimeoutCheck)

\* lines 559-564: key has an awaiting record and is not the thread shown, while
\* a thread is shown
awaitsInBackground(key) ==
  /\ awaitingByThreadKey[key].commandId # 0
  /\ activeWorkspaceId # NoId /\ activeThreadId # NoId
  /\ key # activeThreadKey

\* line 565: the background loop has fetched key
fetchedInBackground(key) == lastBackgroundThreadFetchAtByKey[key] # 0

FirstAwaitingFetched ==
  \A a \in ThreadKeys : \A b \in ThreadKeys \ {a} :
    (awaitsInBackground(a) /\ awaitsInBackground(b))
      ~> (fetchedInBackground(a) \/ fetchedInBackground(b))

\* lines 561-565 and 606: past the first interval, with the ticks a poll
\* interval apart, no tick fetches the second of two awaiting background
\* threads: the first one is due again at every tick and ends the loop
SecondNeverPicked ==
  [][(/\ now > Epoch
      /\ Len(awaitingOrder) = 2
      /\ awaitsInBackground(awaitingOrder[1])
      /\ awaitsInBackground(awaitingOrder[2]))
     => lastBackgroundThreadFetchAtByKey'[awaitingOrder[2]]
          = lastBackgroundThreadFetchAtByKey[awaitingOrder[2]]]_vars

\* the timeout check has removed both records, and the second thread was never
\* fetched in the background while the first one was, at the last tick before
StarvedUntilTimeout ==
  /\ "reply.timeout" \in telemetryEvents
  /\ awaitingOrder = <<>>
  /\ nextCommandId = 3
  /\ activeThreadKey = threadKey("w1", "tC")
  /\ lastBackgroundThreadFetchAtByKey[threadKey("w1", "tA")] >= Epoch + ReplyTimeoutMs - pollIntervalMs
  /\ ~fetchedInBackground(threadKey("w1", "tB"))
====
